---- MODULE Spec2Model ----
(***************************************************************************)
(* AliveHunter v3.2: the worker pool of main/processURLs (scheduler) and   *)
(* the probe CheckURL with its verification engine.                        *)
(*                                                                         *)
(* Spec      the scheduler: feeder, workers, rate limiter, closer, sink    *)
(*           and the interrupt handler, one action per step between two    *)
(*           suspension points of a goroutine.                             *)
(* FairSpec  Spec with the fairness of the Go scheduler.                   *)
(* ProbeSpec one call of CheckURL on a candidate, a configuration and the  *)
(*           answers of the network, drawn from bounded sets.              *)
(***************************************************************************)
EXTENDS Integers, Sequences, FiniteSets, TLC

(* ------------------------------ bounds -------------------------------- *)

\* len(urls): the candidates read by readInput, identified by their index.
NumURLs == 2

\* config.Workers after the derivation of main.
NumWorkers == 2

\* Capacity of urlChan and resultsChan (BATCH_SIZE in the source, scaled down
\* so that a full channel is reached).
ChanCap == 1

URLs == 1..NumURLs
Workers == 1..NumWorkers

(* ------------------------------ state --------------------------------- *)

VARIABLES
    fastMode,       \* config.FastMode
    cancelled,      \* ctx.Done() is closed
    fidx,           \* feeder: index of the next url of `urls` to send
    fpc,            \* feeder: "run" | "done" (returned, urlChan closed)
    urlChan,        \* buffered channel of candidates
    urlClosed,      \* number of close(urlChan) executed
    wpc,            \* worker: "select" | "wait" | "waiting" | "probe" | "send" | "exit"
    wurl,           \* worker: the candidate it holds (0: none)
    wres,           \* worker: the Result it is about to send
    tokens,         \* rate.Limiter bucket (burst 1)
    wg,             \* sync.WaitGroup counter
    cpc,            \* closer goroutine: "wait" | "done"
    resultsChan,    \* buffered channel of Results
    resClosed,      \* number of close(resultsChan) executed
    spc,            \* sink goroutine: "run" | "done" (resultsDone closed)
    stats,          \* Stats counters
    \* history (not read by the program)
    pulls,          \* candidate -> number of times it was received from urlChan
    emitted,        \* candidate -> sequence of Results sent on resultsChan
    consumed,       \* candidate -> number of its Results the sink received
    lateRecv,       \* candidates received from urlChan after cancellation
    probed,         \* candidates CheckURL was invoked for
    permits,        \* candidate -> number of limiter.Wait calls that returned nil for it
    crashedURLs,    \* candidates whose processing panicked
    crashedWorkers, \* workers that panicked
    sendOnClosed,   \* channels ("url", "results") sent on after their close
    \* one call of CheckURL (ProbeSpec)
    pin,            \* its arguments and the answers of the network
    pout,           \* the Result it returned and what it did
    ppc,            \* "idle" | "call" | "done"
    \* the Stats updates of processURLs, one atomic add at a time (StatsSpec)
    apc,            \* worker: "call" | "checked" | "alive" | "verified" | "errors" | "send" | "exit"
    ares,           \* worker: the Result CheckURL returned to it
    acount,         \* number of Results CheckURL has returned
    produced,       \* those Results, counted by kind
    \* limiter.Wait against the clock (LimiterSpec); time in units of
    \* 1/(Rate * Resolution) s, tokens in units of 1/Resolution
    now,            \* the clock
    limTokens,      \* Limiter.tokens
    limLast,        \* Limiter.last: when tokens was last updated
    lpc,            \* worker: "idle" | "waiting" | "probe" | "exit"
    timeToAct,      \* worker: when its reservation lets it act
    dispatched,     \* the times at which Wait returned nil and CheckURL was called
    saturated,      \* some worker was waiting in Wait whenever the clock advanced
    \* main, from the flags to the worker pool (MainSpec)
    requested,      \* the value of -t as parsed
    numCPU,         \* runtime.NumCPU()
    mainConfig,     \* config: Workers, Timeout (s), FastMode, VerifyMode
    mainPc,         \* "fast" | "verify" | "clamp" | "launch" | "run" | "done"
    mainI,          \* i of the launch loop
    launched,       \* number of worker goroutines started
    returned,       \* number of worker goroutines that returned
    \* the two title extractions on one body (TitleSpec)
    tdoc,           \* the body, by its parts: prefix, open tag, text, close tag, suffix
    tfast,          \* what extractTitleFast returned
    trobust,        \* what extractTitleRobust returned
    tpc,            \* the strategies that have returned: subset of {"fast", "robust"}
    \* v1.0: main dividing the list into blocks (BlocksSpec)
    burls,          \* urls, as read from the input file
    maxBlocks,      \* the value of -b
    blocks,         \* what divideIntoBlocks returned
    bpc,            \* "idle" | "call" | "done" | "panic" | "hang"
    \* v1.0: checkURL (CheckSpec)
    chkIn,          \* url, retries, httpsOnly and what the server answers
    chkOut,         \* what checkURL returned and the requests it made
    chkPc,          \* "idle" | "call" | "done"
    \* v1.0 with -c: main launching the block goroutines (SemSpec)
    semIn,          \* the number of blocks and the value of -c
    semPc,          \* main: "acquire" | "go" | "wait" | "closed" | "done" | "panic"
    semWg,          \* the WaitGroup counter
    semTokens,      \* number of tokens in the channel sem
    semG,           \* block goroutine: "new" | "run" | "released" | "inner" | "exit"
    \* v1.0: the block goroutines and the shared bufio.Writer (WriterSpec)
    wrIn,           \* for each block, whether its URL is alive
    wrMain,         \* main: "launch" | "wait" | "done"
    wrG,            \* block goroutine: its position and the b.n it has read
    wrBuf,          \* the bufio.Writer: buf and n
    wrFile,         \* the lines written to the output file, in order
    \* v1.1: workers, the results channel and the writer goroutine (V11Spec)
    v11In,          \* for each URL, whether checkURL finds it alive
    v11Main,        \* main: its position and the count its summary printed
    v11Next,        \* for each worker, the index of the URL it checks next
    v11Chan,        \* the URLs of the Results buffered in results
    v11Out          \* the writer goroutine: position, Result held, liveCount, file

vars == << fastMode, cancelled, fidx, fpc, urlChan, urlClosed, wpc, wurl, wres,
           tokens, wg, cpc, resultsChan, resClosed, spc, stats,
           pulls, emitted, consumed, lateRecv, probed, permits, crashedURLs,
           crashedWorkers, sendOnClosed, pin, pout, ppc,
           apc, ares, acount, produced,
           now, limTokens, limLast, lpc, timeToAct, dispatched, saturated,
           requested, numCPU, mainConfig, mainPc, mainI, launched, returned,
           tdoc, tfast, trobust, tpc,
           burls, maxBlocks, blocks, bpc,
           chkIn, chkOut, chkPc,
           semIn, semPc, semWg, semTokens, semG,
           wrIn, wrMain, wrG, wrBuf, wrFile,
           v11In, v11Main, v11Next, v11Chan, v11Out >>

probeVars == << pin, pout, ppc >>

\* The variables of the specifications other than the scheduler's.
statsVars == << apc, ares, acount, produced >>

limiterVars == << now, limTokens, limLast, lpc, timeToAct, dispatched, saturated >>

mainVars == << requested, numCPU, mainConfig, mainPc, mainI, launched, returned >>

titleVars == << tdoc, tfast, trobust, tpc >>

blocksVars == << burls, maxBlocks, blocks, bpc >>

checkVars == << chkIn, chkOut, chkPc >>

semVars == << semIn, semPc, semWg, semTokens, semG >>

writerVars == << wrIn, wrMain, wrG, wrBuf, wrFile >>

v11Vars == << v11In, v11Main, v11Next, v11Chan, v11Out >>

otherVars == << probeVars, statsVars, limiterVars, mainVars, titleVars, blocksVars, checkVars, semVars, writerVars, v11Vars >>

histVars == << pulls, emitted, consumed, lateRecv, probed, permits, crashedURLs,
               crashedWorkers, sendOnClosed >>

(* ------------------------------ Result -------------------------------- *)

\* The fields of Result the scheduler reads (Alive, Verified, Error) and the
\* candidate the Result is about.  Error is its kind (the text before ':').
NoResult == [url |-> 0, alive |-> FALSE, verified |-> FALSE, error |-> ""]

\* (Alive, Verified, Error) of the Results CheckURL returns: a verified live
\* host, a live host whose verification request failed, a dead host.
ProbeOutcomes ==
    { [alive |-> TRUE,  verified |-> TRUE,  error |-> ""],
      [alive |-> TRUE,  verified |-> FALSE, error |-> "verification_failed"],
      [alive |-> FALSE, verified |-> FALSE, error |-> "connection_failed"] }

\* processURLs, "Update stats atomically".
UpdateStats(s, r) ==
    [checked  |-> s.checked + 1,
     alive    |-> s.alive + (IF r.alive THEN 1 ELSE 0),
     verified |-> s.verified + (IF r.verified THEN 1 ELSE 0),
     errors   |-> s.errors + (IF r.error # "" THEN 1 ELSE 0)]

(* ------------------------------ strings ------------------------------- *)

\* A string is the sequence of its characters.
UpperCase ==
    <<"A","B","C","D","E","F","G","H","I","J","K","L","M",
      "N","O","P","Q","R","S","T","U","V","W","X","Y","Z">>

LowerCase ==
    <<"a","b","c","d","e","f","g","h","i","j","k","l","m",
      "n","o","p","q","r","s","t","u","v","w","x","y","z">>

\* strings.ToLower, on ASCII text.
ToLowerChar(c) ==
    IF \E i \in 1..26 : UpperCase[i] = c
    THEN LowerCase[CHOOSE i \in 1..26 : UpperCase[i] = c]
    ELSE c

ToLower(s) == [i \in 1..Len(s) |-> ToLowerChar(s[i])]

\* strings.Contains
Contains(s, sub) ==
    \E i \in 0..(Len(s) - Len(sub)) : SubSeq(s, i + 1, i + Len(sub)) = sub

\* strings.ContainsAny
ContainsAny(s, chars) == \E i \in 1..Len(s) : s[i] \in chars

\* strings.HasPrefix and strings.TrimPrefix
HasPrefix(s, p) == Len(s) >= Len(p) /\ SubSeq(s, 1, Len(p)) = p

TrimPrefix(s, p) == IF HasPrefix(s, p) THEN SubSeq(s, Len(p) + 1, Len(s)) ELSE s

\* The first n bytes of s (all of s when it is shorter).
Prefix(s, n) == SubSeq(s, 1, IF Len(s) < n THEN Len(s) ELSE n)

Min(a, b) == IF a < b THEN a ELSE b

(* --------------------------- probe: bounds ---------------------------- *)

\* Size of the buffer verifyResponseBody reads into (2048 in the source),
\* scaled down so that bodies reach beyond it.
VerifySampleSize == 16

\* config.MaxBodySize (MAX_BODY_SIZE, 10KB, in the source), scaled down and
\* kept above VerifySampleSize.
MaxBodySize == 41

\* TITLE_BODY_SIZE (8192 in the source): the bytes title extraction reads,
\* scaled down between the verification sample and the stored body.
TitleBodySize == 40

\* isValidURL: the longest candidate accepted.
MaxURLLen == 200

\* extractTitleFast, extractTitleRobust: the longest title kept whole (100 in
\* the source), scaled down so that titles reach beyond it.
TitleMaxLen == 4

\* CheckURL: time.Sleep before the retry, in milliseconds.
RetryBackoffMs == 50

(* ------------------------ probe: configuration ------------------------ *)

SchemeHTTPS == <<"h","t","t","p","s",":","/","/">>
SchemeHTTP == <<"h","t","t","p",":","/","/">>
SchemeSep == <<":","/","/">>

\* verifyResponseBody: falsePositivePatterns, in the order of the source.
falsePositivePatterns ==
    << <<"d","o","m","a","i","n"," ","f","o","r"," ","s","a","l","e">>,
       <<"t","h","i","s"," ","d","o","m","a","i","n"," ","i","s"," ","f","o","r"," ","s","a","l","e">>,
       <<"p","a","g","e"," ","n","o","t"," ","f","o","u","n","d">>,
       <<"4","0","4"," ","n","o","t"," ","f","o","u","n","d">>,
       <<"f","i","l","e"," ","n","o","t"," ","f","o","u","n","d">>,
       <<"t","h","i","s"," ","d","o","m","a","i","n"," ","m","a","y"," ","b","e"," ","f","o","r"," ","s","a","l","e">>,
       <<"p","a","r","k","e","d"," ","d","o","m","a","i","n">>,
       <<"d","o","m","a","i","n"," ","p","a","r","k","i","n","g">>,
       <<"c","o","m","i","n","g"," ","s","o","o","n">>,
       <<"u","n","d","e","r"," ","c","o","n","s","t","r","u","c","t","i","o","n">>,
       <<"d","e","f","a","u","l","t"," ","p","a","g","e">>,
       <<"w","e","l","c","o","m","e"," ","t","o"," ","n","g","i","n","x">>,
       <<"a","p","a","c","h","e","2"," ","d","e","f","a","u","l","t"," ","p","a","g","e">>,
       <<"i","i","s"," ","w","i","n","d","o","w","s"," ","s","e","r","v","e","r">>,
       <<"d","e","f","a","u","l","t"," ","w","e","b","s","i","t","e">>,
       <<"p","l","a","c","e","h","o","l","d","e","r"," ","p","a","g","e">>,
       <<"t","h","i","s"," ","s","i","t","e"," ","c","a","n","'","t"," ","b","e"," ","r","e","a","c","h","e","d">>,
       <<"w","e","b","s","i","t","e"," ","t","e","m","p","o","r","a","r","i","l","y"," ","u","n","a","v","a","i","l","a","b","l","e">>,
       <<"s","u","s","p","e","n","d","e","d">>,
       <<"a","c","c","o","u","n","t"," ","s","u","s","p","e","n","d","e","d">>,
       <<"h","o","s","t","i","n","g"," ","a","c","c","o","u","n","t">>,
       <<"p","l","e","s","k"," ","d","e","f","a","u","l","t"," ","p","a","g","e">>,
       <<"c","p","a","n","e","l">>,
       <<"w","h","m"," ","d","e","f","a","u","l","t"," ","p","a","g","e">>,
       <<"g","o","d","a","d","d","y">>,
       <<"n","a","m","e","c","h","e","a","p">>,
       <<"s","e","d","o"," ","d","o","m","a","i","n"," ","p","a","r","k","i","n","g">> >>

\* shouldVerifyResponse: genericServerSignatures.
genericServerSignatures ==
    << <<"c","l","o","u","d","f","l","a","r","e">>,
       <<"n","g","i","n","x">>,
       <<"a","p","a","c","h","e">>,
       <<"i","i","s">>,
       <<"l","i","g","h","t","t","p","d">> >>

TextHTML == <<"t","e","x","t","/","h","t","m","l">>

\* isAliveStatus: aliveStatuses.
aliveStatuses ==
    << 200, 201, 202, 204, 206,
       301, 302, 303, 307, 308,
       401, 403,
       405, 406, 409, 410,
       429,
       500, 501, 502, 503 >>

\* The grave accent, which cannot be written in a string here.
GraveAccent == "U+0060"

\* isValidURL: the characters strings.ContainsAny rejects.
ForbiddenChars ==
    { " ", "\t", "\n", "\r", "<", ">", "\"", "{", "}", "|", "\\", "^",
      GraveAccent, "[", "]" }

HexDigits ==
    { "0","1","2","3","4","5","6","7","8","9",
      "a","b","c","d","e","f","A","B","C","D","E","F" }

(* ---------------------------- probe: input ---------------------------- *)

\* Bodies a server answers a GET with.
BodyEmpty == << >>
BodyForSale == <<"D","o","m","a","i","n"," ","F","o","r"," ","S","a","l","e">>
BodyClean == <<"h","e","l","l","o"," ","w","o","r","l","d">>
BodySuspended == <<"o","k"," ","S","U","S","P","E","N","D","E","D">>
\* A signature that begins inside the sample and ends beyond it.
BodyLateSignature == <<"x","x","x","x","x","x","x","x","x","x","x","x"," ","c","P","a","n","e","l">>

Bodies == { BodyEmpty, BodyForSale, BodyClean, BodySuspended, BodyLateSignature }

\* Bodies with a well-formed title element inside the verification sample.
BodyTitle == <<"<","t","i","t","l","e",">","T","<","/","t","i","t","l","e",">">>
BodyTitleUpper == <<"<","T","I","T","L","E",">","B","<","/","T","I","T","L","E",">">>

TitleBodies == { BodyTitle, BodyTitleUpper }

ServerHeaders == { <<"N","g","i","n","x","/","1",".","2">>, <<"g","w","s">>, << >> }

ContentTypes == { <<"T","e","x","t","/","H","T","M","L">>, <<"a","p","p","l","i","c","a","t","i","o","n","/","j","s","o","n">> }

Statuses == { 200, 204, 301, 404 }

\* Every status code a response may carry.
StatusCodes == 100..599

\* Candidates: well-formed, with a forbidden character, empty, with a broken
\* percent escape, longer than MaxURLLen, well-formed and carrying a scheme.
RawURLValid == <<"a",".","i","o">>
RawURLs == { RawURLValid, <<"a"," ","b">>, << >>, <<"a","%","z","z">> }

RawURLTooLong == [i \in 1..(MaxURLLen + 1) |-> "a"]

RawURLWithScheme == <<"h","t","t","p",":","/","/","a",".","i","o">>

MalformedURLs == (RawURLs \ {RawURLValid}) \cup {RawURLTooLong, <<"a","<","b">>, <<"[","a","]">>}

\* Outcome of client.Do for <<https, https retry, http, http retry>>:
\* TRUE a response, FALSE a transport error.
AttemptPatterns ==
    { <<TRUE, TRUE, TRUE, TRUE>>,
      <<FALSE, TRUE, TRUE, TRUE>>,
      <<FALSE, FALSE, TRUE, TRUE>>,
      <<FALSE, FALSE, FALSE, TRUE>>,
      <<FALSE, FALSE, FALSE, FALSE>> }

\* err.Error() of the transport error of each of those four calls, and of
\* the verification request.
TransportErrors == << <<"t","l","s">>, <<"e","o","f">>, <<"r","e","f","u","s","e","d">>, <<"t","i","m","e","o","u","t">> >>

VerificationError == <<"r","e","s","e","t">>

\* A nil error.
NilError == << "nil" >>

\* Number of bytes the first Read of a network body may return at most.
FirstReadSizes == { 1, 5, VerifySampleSize }

OnlyStatusLists == { << >>, << 404 >> }

\* config.OnlyStatus as main builds it from -mc (sorted).
AllowLists == OnlyStatusLists \cup { << 200, 301 >> }

\* The configuration, the candidate and what the network answers.
ProbeInput(raw, fast, verify, title, only, att, st, srv, ct, body, verr, n) ==
    [rawURL |-> raw, FastMode |-> fast, VerifyMode |-> verify,
     ExtractTitle |-> title, RobustTitle |-> FALSE, OnlyStatus |-> only,
     FollowRedirect |-> FALSE, chain |-> 0,
     attempts |-> att, status |-> st, server |-> srv, contentType |-> ct,
     body |-> body, verifyErr |-> verr, firstRead |-> n]

DefaultInput ==
    ProbeInput(RawURLValid, FALSE, FALSE, FALSE, << >>,
               <<TRUE, TRUE, TRUE, TRUE>>, 200, << >>, << >>, << >>, FALSE,
               VerifySampleSize)

\* Malformed candidates, in every mode.
MalformedInputs ==
    { [DefaultInput EXCEPT !.rawURL = raw, !.FastMode = fast,
                           !.VerifyMode = verify, !.ExtractTitle = title] :
          raw \in MalformedURLs, fast \in BOOLEAN, verify \in BOOLEAN,
          title \in BOOLEAN }

\* Candidates no protocol answers for.
UnreachableInputs ==
    { [DefaultInput EXCEPT !.FastMode = fast, !.VerifyMode = verify,
                           !.ExtractTitle = title,
                           !.attempts = <<FALSE, FALSE, FALSE, FALSE>>] :
          fast \in BOOLEAN, verify \in BOOLEAN, title \in BOOLEAN }

\* Candidates that get a response.
ResponseInputs ==
    { ProbeInput(RawURLValid, fast, verify, title, only, att, st, srv, ct,
                 body, verr, n) :
          fast \in BOOLEAN, verify \in BOOLEAN, title \in BOOLEAN,
          only \in OnlyStatusLists,
          att \in AttemptPatterns \ { <<FALSE, FALSE, FALSE, FALSE>> },
          st \in Statuses, srv \in ServerHeaders, ct \in ContentTypes,
          body \in Bodies, verr \in BOOLEAN, n \in FirstReadSizes }

\* Every status code, against every allow-list.
StatusInputs ==
    { [DefaultInput EXCEPT !.status = st, !.OnlyStatus = only] :
          st \in StatusCodes, only \in AllowLists }

\* A candidate that carries its scheme.
SchemeInputs ==
    { [DefaultInput EXCEPT !.rawURL = RawURLWithScheme, !.FastMode = fast,
                           !.attempts = att] :
          fast \in BOOLEAN, att \in AttemptPatterns }

\* GET probes of pages that have a title.
TitleInputs ==
    { [DefaultInput EXCEPT !.ExtractTitle = TRUE, !.RobustTitle = robust,
                           !.FastMode = fast, !.VerifyMode = verify,
                           !.status = st, !.server = srv,
                           !.contentType = ct, !.body = body] :
          robust \in BOOLEAN, fast \in BOOLEAN, verify \in BOOLEAN,
          st \in { 200, 404 }, srv \in ServerHeaders, ct \in ContentTypes,
          body \in TitleBodies }

\* Number of redirects in a row the servers may answer before the response
\* with in.status.
Chains == 0..4

\* Candidates whose URL redirects, `chain` times in a row.
RedirectInputs ==
    { [DefaultInput EXCEPT !.FollowRedirect = follow, !.chain = chain,
                           !.ExtractTitle = title, !.status = st] :
          follow \in BOOLEAN, chain \in Chains, title \in BOOLEAN,
          st \in { 200, 404 } }

ProbeInputs ==
    MalformedInputs \cup UnreachableInputs \cup ResponseInputs
    \cup StatusInputs \cup SchemeInputs \cup TitleInputs \cup RedirectInputs

(* ----------------------------- probe: title --------------------------- *)

\* strings.Index: the offset (from 0) of the first occurrence, -1 if none.
Index(s, sub) ==
    IF Contains(s, sub)
    THEN CHOOSE i \in 0..(Len(s) - Len(sub)) :
            /\ SubSeq(s, i + 1, i + Len(sub)) = sub
            /\ \A j \in 0..(i - 1) : SubSeq(s, j + 1, j + Len(sub)) # sub
    ELSE -1

\* s[a:b], offsets from 0.
Slice(s, a, b) == SubSeq(s, a + 1, b)

\* The characters \s matches and strings.TrimSpace removes, in ASCII text.
Whitespace == { " ", "\t", "\n", "\r", "\f" }

\* strings.TrimSpace
TrimSpace(s) ==
    LET keep == { i \in 1..Len(s) : s[i] \notin Whitespace } IN
    IF keep = {} THEN << >>
    ELSE SubSeq(s, CHOOSE i \in keep : \A j \in keep : i <= j,
                   CHOOSE i \in keep : \A j \in keep : i >= j)

\* whitespaceRegex.ReplaceAllString(s, " "): every run of whitespace becomes
\* one space.
RECURSIVE ReplaceWhitespace(_)
ReplaceWhitespace(s) ==
    IF s = << >> THEN << >>
    ELSE IF Head(s) \notin Whitespace
    THEN << Head(s) >> \o ReplaceWhitespace(Tail(s))
    ELSE IF Len(s) > 1 /\ s[2] \in Whitespace
    THEN ReplaceWhitespace(Tail(s))
    ELSE << " " >> \o ReplaceWhitespace(Tail(s))

\* Mutant: a long title is kept whole.
Truncate_KeepsAll(title) == title

\* if len(title) > 100 { title = title[:100] + "..." }
Truncate(title) ==
    IF Len(title) > TitleMaxLen
    THEN SubSeq(title, 1, TitleMaxLen) \o <<".",".",".">>
    ELSE title

TagTitle == <<"<","t","i","t","l","e",">">>
TagTitleAttr == <<"<","t","i","t","l","e"," ">>
TagTitleClose == <<"<","/","t","i","t","l","e",">">>
TagTitleOpen == <<"<","t","i","t","l","e">>
TagTitleEnd == <<"<","/","t","i","t","l","e">>

\* extractTitleFast on what is left to read of the body: one Read into a
\* buffer of TitleBodySize bytes, which a strings.Reader fills as far as it
\* can.
extractTitleFast(body) ==
    LET contentStr == Prefix(body, TitleBodySize)
        content == ToLower(contentStr)
        idx1 == Index(content, TagTitle)
        idx2 == Index(content, TagTitleAttr)
        closeIdx == IF idx2 # -1
                    THEN Index(Slice(content, idx2, Len(content)), << ">" >>)
                    ELSE -1
        titleStart == IF idx1 # -1 THEN idx1 + Len(TagTitle)
                      ELSE IF idx2 # -1 /\ closeIdx # -1
                      THEN idx2 + closeIdx + 1
                      ELSE -1
    IN
    IF titleStart = -1 THEN << >>
    ELSE
      LET end == Index(Slice(content, titleStart, Len(content)),
                       TagTitleClose)
      IN
      IF end = -1 THEN << >>
      ELSE Truncate(TrimSpace(ReplaceWhitespace(TrimSpace(
               Slice(contentStr, titleStart, titleStart + end)))))

\* Character references and what they stand for (a few of the table of
\* golang.org/x/net/html).
Entities ==
    << << <<"&","a","m","p",";">>, <<"&">> >>,
       << <<"&","l","t",";">>, <<"<">> >>,
       << <<"&","#","3","2",";">>, <<" ">> >> >>

\* Mutant: character references are left as they are.
UnescapeString_Identity(s) == s

\* html.UnescapeString, which the tokenizer applies to the text of a token.
RECURSIVE UnescapeString(_)
UnescapeString(s) ==
    IF s = << >> THEN << >>
    ELSE IF \E e \in 1..Len(Entities) : HasPrefix(s, Entities[e][1])
    THEN LET e == CHOOSE e \in 1..Len(Entities) : HasPrefix(s, Entities[e][1])
         IN Entities[e][2]
                \o UnescapeString(Slice(s, Len(Entities[e][1]), Len(s)))
    ELSE << Head(s) >> \o UnescapeString(Tail(s))

\* The characters that end a tag name for the tokenizer.
TagNameEnd == Whitespace \cup { "/", ">" }

\* The offset of the first occurrence of the tag opening `tag` followed by
\* the end of its name, -1 if none.
IndexTag(content, tag) ==
    LET at == { i \in 0..(Len(content) - Len(tag) - 1) :
                  /\ SubSeq(ToLower(content), i + 1, i + Len(tag)) = tag
                  /\ content[i + Len(tag) + 1] \in TagNameEnd }
    IN IF at = {} THEN -1 ELSE CHOOSE i \in at : \A j \in at : i <= j

\* The loop of extractTitleRobust over the tokens of content, for pages
\* whose markup before the title is made of plain tags and text: the first
\* start tag named title that is followed by a text token gives the title;
\* the text of a title element runs to its end tag or to the end of the
\* input, and Token().Data is that text with its character references
\* decoded.
RECURSIVE TokenizeTitle(_)
TokenizeTitle(content) ==
    LET idx == IndexTag(content, TagTitleOpen)
        gt == IF idx = -1 THEN -1
              ELSE Index(Slice(content, idx, Len(content)), << ">" >>)
    IN
    IF idx = -1 \/ gt = -1 THEN << >>
    ELSE
      LET after == Slice(content, idx + gt + 1, Len(content))
          selfClosing == content[idx + gt] = "/"
          end == IndexTag(after, TagTitleEnd)
          text == IF end = -1 THEN after ELSE Slice(after, 0, end)
      IN
      IF selfClosing \/ text = << >> THEN TokenizeTitle(after)
      ELSE Truncate(ReplaceWhitespace(TrimSpace(UnescapeString(text))))

\* extractTitleRobust: the tokenizer reads through io.LimitReader.
extractTitleRobust(body) == TokenizeTitle(Prefix(body, TitleBodySize))

extractTitle(body, robust) ==
    IF robust THEN extractTitleRobust(body) ELSE extractTitleFast(body)

(* --------------------------- probe: CheckURL -------------------------- *)

\* The texts CheckURL writes to Result.Error.
ErrInvalidURL == <<"i","n","v","a","l","i","d","_","u","r","l">>
ErrConnectionFailed == <<"c","o","n","n","e","c","t","i","o","n","_","f","a","i","l","e","d",":"," ">>
ErrNoResponse == <<"n","o","_","r","e","s","p","o","n","s","e">>
ErrVerificationFailed == <<"v","e","r","i","f","i","c","a","t","i","o","n","_","f","a","i","l","e","d",":"," ">>
ErrVerificationRequestFailed == <<"v","e","r","i","f","i","c","a","t","i","o","n","_","r","e","q","u","e","s","t","_","f","a","i","l","e","d",":"," ">>
ErrFalsePositive == <<"f","a","l","s","e","_","p","o","s","i","t","i","v","e","_","d","e","t","e","c","t","e","d">>

\* url.ParseRequestURI, as far as the candidates here exercise it: it
\* rejects a '%' that is not followed by two hexadecimal digits.
ParseRequestURI(u) ==
    \A i \in 1..Len(u) :
        u[i] = "%" => /\ i + 2 <= Len(u)
                      /\ u[i + 1] \in HexDigits
                      /\ u[i + 2] \in HexDigits

\* Mutant: the forbidden characters are not looked for.
isValidURL_NoCharCheck(rawURL) ==
    IF rawURL = << >> \/ Len(rawURL) > MaxURLLen THEN FALSE
    ELSE LET testURL == IF ~Contains(rawURL, SchemeSep)
                        THEN SchemeHTTPS \o rawURL ELSE rawURL
         IN ParseRequestURI(testURL)

isValidURL(rawURL) ==
    IF rawURL = << >> \/ Len(rawURL) > MaxURLLen THEN FALSE
    ELSE IF ContainsAny(rawURL, ForbiddenChars) THEN FALSE
    ELSE LET testURL == IF ~Contains(rawURL, SchemeSep)
                        THEN SchemeHTTPS \o rawURL ELSE rawURL
         IN ParseRequestURI(testURL)

\* Mutant: the allow-list adds to the default set.
isAliveStatus_Additive(status, OnlyStatus) ==
    \/ \E i \in 1..Len(OnlyStatus) : status = OnlyStatus[i]
    \/ \E i \in 1..Len(aliveStatuses) : status = aliveStatuses[i]

\* Mutant: without an allow-list the whole 2xx, 3xx and 5xx classes are alive.
isAliveStatus_WholeClasses(status, OnlyStatus) ==
    IF Len(OnlyStatus) > 0
    THEN \E i \in 1..Len(OnlyStatus) : status = OnlyStatus[i]
    ELSE \/ \E i \in 1..Len(aliveStatuses) : status = aliveStatuses[i]
         \/ status >= 200 /\ status < 400
         \/ status >= 500 /\ status < 600

isAliveStatus(status, OnlyStatus) ==
    IF Len(OnlyStatus) > 0
    THEN \E i \in 1..Len(OnlyStatus) : status = OnlyStatus[i]
    ELSE \E i \in 1..Len(aliveStatuses) : status = aliveStatuses[i]

isRedirect(status) == status >= 300 /\ status < 400

\* Mutant: any 2xx status warrants verification.
shouldVerifyResponse_Any2xx(in) ==
    IF in.FastMode THEN FALSE
    ELSE IF in.VerifyMode THEN TRUE
    ELSE \E i \in 1..Len(genericServerSignatures) :
            /\ Contains(ToLower(in.server), genericServerSignatures[i])
            /\ in.status >= 200 /\ in.status < 300
            /\ Contains(ToLower(in.contentType), TextHTML)

\* Mutant: verify mode goes through the test of default mode.
shouldVerifyResponse_NoVerifyMode(in) ==
    IF in.FastMode THEN FALSE
    ELSE \E i \in 1..Len(genericServerSignatures) :
            /\ Contains(ToLower(in.server), genericServerSignatures[i])
            /\ in.status = 200
            /\ Contains(ToLower(in.contentType), TextHTML)

shouldVerifyResponse(in) ==
    IF in.FastMode THEN FALSE
    ELSE IF in.VerifyMode THEN TRUE
    ELSE \E i \in 1..Len(genericServerSignatures) :
            /\ Contains(ToLower(in.server), genericServerSignatures[i])
            /\ in.status = 200
            /\ Contains(ToLower(in.contentType), TextHTML)

\* Mutant: a body of which nothing could be read fails verification.
verifyResponseBody_EmptyFails(data, n) ==
    LET content == ToLower(Prefix(data, n)) IN
    /\ content # << >>
    /\ ~ \E i \in 1..Len(falsePositivePatterns) :
            Contains(content, falsePositivePatterns[i])

\* verifyResponseBody on a body of which one Read returns the first n bytes:
\* TRUE unless the lowercased bytes contain a pattern.
verifyResponseBody(data, n) ==
    LET content == ToLower(Prefix(data, n)) IN
    ~ \E i \in 1..Len(falsePositivePatterns) :
          Contains(content, falsePositivePatterns[i])

\* Number of bytes resp.Body.Read(body) returns for the 2048-byte buffer: a
\* strings.Reader (the body CheckURL stored) copies all it can, a network
\* body returns what has arrived, at least one byte unless it is empty.
ReadStored(data) == Min(Len(data), VerifySampleSize)

ReadNetwork(data, firstRead) == Min(Min(Len(data), VerifySampleSize), firstRead)

\* A request handed to client.Do: its method, its RequestType, its URL and
\* the time slept just before it.
Request(method, type, url, backoff) ==
    [method |-> method, type |-> type, url |-> url, backoff |-> backoff]

\* Mutant: a failed verification request counts as a false positive.
performVerification_ErrorIsFalsePositive(in, fullURL, alreadyGET, stored) ==
    IF alreadyGET
    THEN [verified |-> verifyResponseBody(stored, ReadStored(stored)),
          err |-> NilError, requests |-> << >>, pos |-> ReadStored(stored),
          sample |-> Prefix(stored, ReadStored(stored))]
    ELSE IF in.verifyErr
    THEN [verified |-> FALSE, err |-> NilError,
          requests |-> << Request("GET", "verification", fullURL, 0) >>,
          pos |-> 0, sample |-> << >>]
    ELSE [verified |-> verifyResponseBody(in.body,
                                          ReadNetwork(in.body, in.firstRead)),
          err |-> NilError,
          requests |-> << Request("GET", "verification", fullURL, 0) >>,
          pos |-> 0,
          sample |-> Prefix(in.body, ReadNetwork(in.body, in.firstRead))]

\* Mutant: the stored body is not reused, a fresh GET is always made.
performVerification_AlwaysFetches(in, fullURL, alreadyGET, stored) ==
    IF in.verifyErr
    THEN [verified |-> FALSE,
          err |-> ErrVerificationRequestFailed \o VerificationError,
          requests |-> << Request("GET", "verification", fullURL, 0) >>,
          pos |-> 0, sample |-> << >>]
    ELSE [verified |-> verifyResponseBody(in.body,
                                          ReadNetwork(in.body, in.firstRead)),
          err |-> NilError,
          requests |-> << Request("GET", "verification", fullURL, 0) >>,
          pos |-> 0,
          sample |-> Prefix(in.body, ReadNetwork(in.body, in.firstRead))]

\* performVerification: [verified, err, requests, pos, sample] where pos is
\* the read position of the stored body afterwards and sample the bytes
\* verifyResponseBody inspected.
performVerification(in, fullURL, alreadyGET, stored) ==
    IF alreadyGET
    THEN [verified |-> verifyResponseBody(stored, ReadStored(stored)),
          err |-> NilError, requests |-> << >>, pos |-> ReadStored(stored),
          sample |-> Prefix(stored, ReadStored(stored))]
    ELSE IF in.verifyErr
    THEN [verified |-> FALSE,
          err |-> ErrVerificationRequestFailed \o VerificationError,
          requests |-> << Request("GET", "verification", fullURL, 0) >>,
          pos |-> 0, sample |-> << >>]
    ELSE [verified |-> verifyResponseBody(in.body,
                                          ReadNetwork(in.body, in.firstRead)),
          err |-> NilError,
          requests |-> << Request("GET", "verification", fullURL, 0) >>,
          pos |-> 0,
          sample |-> Prefix(in.body, ReadNetwork(in.body, in.firstRead))]

\* Mutant: a Result starts out alive.
NoOutput_StartsAlive ==
    [URL |-> << >>, Status |-> 0, Length |-> 0, Title |-> << >>,
     Server |-> << >>, Redirect |-> << >>, Error |-> << >>, Alive |-> TRUE,
     Verified |-> FALSE,
     requests |-> << >>, verifRan |-> FALSE, sample |-> << >>, bodyPos |-> 0,
     followed |-> 0]

\* The Result of CheckURL and what it did to get it: the requests issued,
\* whether performVerification ran and on which bytes, the read position of
\* the stored body when title extraction starts.
NoOutput ==
    [URL |-> << >>, Status |-> 0, Length |-> 0, Title |-> << >>,
     Server |-> << >>, Redirect |-> << >>, Error |-> << >>, Alive |-> FALSE,
     Verified |-> FALSE,
     requests |-> << >>, verifRan |-> FALSE, sample |-> << >>, bodyPos |-> 0,
     followed |-> 0]

\* Mutant: HEAD whatever the configuration.
Method_AlwaysHEAD(in) == "HEAD"

\* method of the liveness request: HEAD, GET when the title is wanted.
Method(in) == IF in.ExtractTitle THEN "GET" ELSE "HEAD"

\* The Location header of the response: set on the redirect.
Location(in) == IF isRedirect(in.status) THEN <<"/">> ELSE << >>

Protocols == << SchemeHTTPS, SchemeHTTP >>

\* Mutant: http:// is tried first.
FullURL_HTTPFirst(in, p) ==
    Protocols[3 - p]
        \o TrimPrefix(TrimPrefix(in.rawURL, SchemeHTTPS), SchemeHTTP)

\* fullURL of the p-th protocol of the loop.
FullURL(in, p) ==
    Protocols[p] \o TrimPrefix(TrimPrefix(in.rawURL, SchemeHTTPS), SchemeHTTP)

\* Mutant: lastError keeps the first error of the protocol.
Attempt_KeepsFirstError(in, p) ==
    LET req == Request(Method(in), "check", FullURL(in, p), 0)
        retry == Request(Method(in), "check", FullURL(in, p), RetryBackoffMs)
    IN
    IF in.attempts[2 * p - 1]
    THEN [ok |-> TRUE, requests |-> << req >>, err |-> NilError]
    ELSE IF in.FastMode
    THEN [ok |-> FALSE, requests |-> << req >>,
          err |-> TransportErrors[2 * p - 1]]
    ELSE [ok |-> in.attempts[2 * p], requests |-> << req, retry >>,
          err |-> TransportErrors[2 * p - 1]]

\* Mutant: the retry is made in fast mode too.
Attempt_RetryInFastMode(in, p) ==
    LET req == Request(Method(in), "check", FullURL(in, p), 0)
        retry == Request(Method(in), "check", FullURL(in, p), RetryBackoffMs)
    IN
    IF in.attempts[2 * p - 1]
    THEN [ok |-> TRUE, requests |-> << req >>, err |-> NilError]
    ELSE [ok |-> in.attempts[2 * p], requests |-> << req, retry >>,
          err |-> IF in.attempts[2 * p] THEN TransportErrors[2 * p - 1]
                  ELSE TransportErrors[2 * p]]

\* Mutant: a failed attempt does not record lastError.
Attempt_NoLastError(in, p) ==
    LET req == Request(Method(in), "check", FullURL(in, p), 0)
        retry == Request(Method(in), "check", FullURL(in, p), RetryBackoffMs)
    IN
    IF in.attempts[2 * p - 1]
    THEN [ok |-> TRUE, requests |-> << req >>, err |-> NilError]
    ELSE IF in.FastMode
    THEN [ok |-> FALSE, requests |-> << req >>, err |-> NilError]
    ELSE [ok |-> in.attempts[2 * p], requests |-> << req, retry >>,
          err |-> NilError]

\* One protocol of the loop of CheckURL: client.Do, and after a transport
\* error one retry of the same request unless in fast mode.  p is 1 for
\* https, 2 for http; err is what the protocol assigned to lastError.
Attempt(in, p) ==
    LET req == Request(Method(in), "check", FullURL(in, p), 0)
        retry == Request(Method(in), "check", FullURL(in, p), RetryBackoffMs)
    IN
    IF in.attempts[2 * p - 1]
    THEN [ok |-> TRUE, requests |-> << req >>, err |-> NilError]
    ELSE IF in.FastMode
    THEN [ok |-> FALSE, requests |-> << req >>,
          err |-> TransportErrors[2 * p - 1]]
    ELSE [ok |-> in.attempts[2 * p], requests |-> << req, retry >>,
          err |-> IF in.attempts[2 * p] THEN TransportErrors[2 * p - 1]
                  ELSE TransportErrors[2 * p]]

\* CheckURL from "defer resp.Body.Close()" on: the response is turned into
\* the Result.  With ExtractTitle and a GET the body is stored and the title
\* is read from what is left of it; with ExtractTitle and another method a
\* GET is made for the title (fetchBody with RequestTypeTitle).
HandleResponse(in, fullURL, requests) ==
    LET isGET == Method(in) = "GET"
        stored == IF isGET THEN Prefix(in.body, MaxBodySize) ELSE << >>
        length == IF isGET THEN Len(stored) ELSE Len(in.body)
        base == [NoOutput EXCEPT !.URL = fullURL, !.Status = in.status,
                                 !.Length = length, !.Server = in.server,
                                 !.requests = requests]
    IN
    IF ~isAliveStatus(in.status, in.OnlyStatus) THEN base
    ELSE
      LET needsVerification == ~in.FastMode /\ shouldVerifyResponse(in)
          v == performVerification(in, fullURL, isGET, stored)
          redirect == IF isRedirect(in.status) /\ Location(in) # << >>
                      THEN Location(in) ELSE << >>
          title(pos) == IF ~in.ExtractTitle THEN << >>
                        ELSE IF isGET
                        THEN extractTitle(Slice(stored, pos, Len(stored)),
                                          in.RobustTitle)
                        ELSE extractTitle(in.body, in.RobustTitle)
          titleReqs == IF in.ExtractTitle /\ ~isGET
                       THEN << Request("GET", "title", fullURL, 0) >>
                       ELSE << >>
      IN
      IF ~needsVerification
      THEN [base EXCEPT !.Alive = TRUE, !.Redirect = redirect,
                        !.requests = requests \o titleReqs,
                        !.Title = title(0)]
      ELSE IF v.err # NilError
      THEN [base EXCEPT !.Alive = TRUE,
                        !.Error = ErrVerificationFailed \o v.err,
                        !.Redirect = redirect, !.verifRan = TRUE,
                        !.requests = requests \o v.requests \o titleReqs,
                        !.sample = v.sample, !.bodyPos = v.pos,
                        !.Title = title(v.pos)]
      ELSE IF ~v.verified
      THEN [base EXCEPT !.Alive = FALSE, !.Error = ErrFalsePositive,
                        !.verifRan = TRUE,
                        !.requests = requests \o v.requests,
                        !.sample = v.sample, !.bodyPos = v.pos]
      ELSE [base EXCEPT !.Alive = TRUE, !.Verified = TRUE,
                        !.Redirect = redirect, !.verifRan = TRUE,
                        !.requests = requests \o v.requests \o titleReqs,
                        !.sample = v.sample, !.bodyPos = v.pos,
                        !.Title = title(v.pos)]

\* len(via) from which CheckRedirect stops the chain.
MaxVia == 3

\* The status of the redirects of a chain.
StatusFound == 302

\* CheckRedirect of the client: via is len(via), the number of requests made
\* so far in the chain; TRUE when the redirect is to be followed.
CheckRedirect(follow, via) == ~(~follow \/ via >= MaxVia)

\* client.Do on a URL that redirects in.chain times: the number of requests
\* made when Do returns, n having been made.  The answer to request n is a
\* redirect when n <= in.chain.
RECURSIVE Follow(_, _)
Follow(in, n) ==
    IF n <= in.chain /\ CheckRedirect(in.FollowRedirect, n)
    THEN Follow(in, n + 1)
    ELSE n

\* The response client.Do returns: the redirect CheckRedirect stopped at
\* (http.ErrUseLastResponse), or the response the chain ends with.
Do(in) ==
    [followed |-> Follow(in, 1) - 1,
     status |-> IF Follow(in, 1) <= in.chain THEN StatusFound ELSE in.status]

\* What CheckURL sees of the answered request.
Answered(in) == [in EXCEPT !.status = Do(in).status]

\* Mutant: a dead status over https:// makes the loop go on to http://.
CheckURL_DeadStatusFallsThrough(in) ==
    IF ~isValidURL(in.rawURL)
    THEN [NoOutput EXCEPT !.URL = in.rawURL, !.Error = ErrInvalidURL]
    ELSE
      LET https == Attempt(in, 1)
          http == Attempt(in, 2)
          lastError == IF http.err # NilError THEN http.err ELSE https.err
      IN
      IF https.ok /\ isAliveStatus(Answered(in).status, in.OnlyStatus)
      THEN [HandleResponse(Answered(in), FullURL(in, 1), https.requests)
                EXCEPT !.followed = Do(in).followed]
      ELSE IF http.ok
      THEN [HandleResponse(Answered(in), FullURL(in, 2),
                           https.requests \o http.requests)
                EXCEPT !.followed = Do(in).followed]
      ELSE [NoOutput EXCEPT !.URL = in.rawURL,
                            !.Error = IF lastError # NilError
                                      THEN ErrConnectionFailed \o lastError
                                      ELSE ErrNoResponse,
                            !.requests = https.requests \o http.requests]

CheckURL(in) ==
    IF ~isValidURL(in.rawURL)
    THEN [NoOutput EXCEPT !.URL = in.rawURL, !.Error = ErrInvalidURL]
    ELSE
      LET https == Attempt(in, 1)
          http == Attempt(in, 2)
          lastError == IF http.err # NilError THEN http.err ELSE https.err
      IN
      IF https.ok
      THEN [HandleResponse(Answered(in), FullURL(in, 1), https.requests)
                EXCEPT !.followed = Do(in).followed]
      ELSE IF http.ok
      THEN [HandleResponse(Answered(in), FullURL(in, 2),
                           https.requests \o http.requests)
                EXCEPT !.followed = Do(in).followed]
      ELSE [NoOutput EXCEPT !.URL = in.rawURL,
                            !.Error = IF lastError # NilError
                                      THEN ErrConnectionFailed \o lastError
                                      ELSE ErrNoResponse,
                            !.requests = https.requests \o http.requests]

(* ------------------------------- Init --------------------------------- *)

\* main, after the worker pool, the sink, the feeder and the closer have been
\* launched (wg.Add(1) ran once per worker) and before any of them stepped.
SchedulerStart ==
    /\ cancelled = FALSE
    /\ fidx = 1
    /\ fpc = "run"
    /\ urlChan = << >>
    /\ urlClosed = 0
    /\ wpc = [w \in Workers |-> "select"]
    /\ wurl = [w \in Workers |-> 0]
    /\ wres = [w \in Workers |-> NoResult]
    /\ tokens = 1
    /\ wg = NumWorkers
    /\ cpc = "wait"
    /\ resultsChan = << >>
    /\ resClosed = 0
    /\ spc = "run"
    /\ stats = [checked |-> 0, alive |-> 0, verified |-> 0, errors |-> 0]
    /\ pulls = [c \in URLs |-> 0]
    /\ emitted = [c \in URLs |-> << >>]
    /\ consumed = [c \in URLs |-> 0]
    /\ lateRecv = {}
    /\ probed = {}
    /\ permits = [c \in URLs |-> 0]
    /\ crashedURLs = {}
    /\ crashedWorkers = {}
    /\ sendOnClosed = {}

\* No call of CheckURL under way.
ProbeIdle ==
    /\ pin = DefaultInput
    /\ pout = NoOutput
    /\ ppc = "idle"

\* No Stats update under way.
StatsIdle ==
    /\ apc = [w \in Workers |-> "exit"]
    /\ ares = [w \in Workers |-> NoResult]
    /\ acount = 0
    /\ produced = [checked |-> 0, alive |-> 0, verified |-> 0, errors |-> 0]

\* No timed run of the limiter under way.
LimiterIdle ==
    /\ now = 0
    /\ limTokens = 0
    /\ limLast = 0
    /\ lpc = [w \in Workers |-> "exit"]
    /\ timeToAct = [w \in Workers |-> 0]
    /\ dispatched = << >>
    /\ saturated = FALSE

\* main is not being run.
MainIdle ==
    /\ requested = 0
    /\ numCPU = 1
    /\ mainConfig = [Workers |-> 0, Timeout |-> 0, FastMode |-> FALSE,
                     VerifyMode |-> FALSE]
    /\ mainPc = "done"
    /\ mainI = 0
    /\ launched = 0
    /\ returned = 0

\* No title extraction under way.
TitleIdle ==
    /\ tdoc = [prefix |-> << >>, open |-> << >>, text |-> << >>,
               close |-> << >>, suffix |-> << >>]
    /\ tfast = << >>
    /\ trobust = << >>
    /\ tpc = {}

\* The v1.0 tool is not dividing a list.
BlocksIdle ==
    /\ burls = << >>
    /\ maxBlocks = 1
    /\ blocks = << >>
    /\ bpc = "idle"

\* The v1.0 tool is not checking a URL.
CheckIdle ==
    /\ chkIn = << >>
    /\ chkOut = << >>
    /\ chkPc = "idle"

\* The v1.0 tool with the semaphore is not running.
SemIdle ==
    /\ semIn = << >>
    /\ semPc = "idle"
    /\ semWg = 0
    /\ semTokens = 0
    /\ semG = << >>

\* The v1.0 block goroutines are not running.
WriterIdle ==
    /\ wrIn = << >>
    /\ wrMain = "idle"
    /\ wrG = << >>
    /\ wrBuf = << >>
    /\ wrFile = << >>

\* The v1.1 tool is not running.
V11Idle ==
    /\ v11In = << >>
    /\ v11Main = << >>
    /\ v11Next = << >>
    /\ v11Chan = << >>
    /\ v11Out = << >>

Init ==
    /\ fastMode \in BOOLEAN
    /\ SchedulerStart
    /\ V11Idle
    /\ WriterIdle
    /\ SemIdle
    /\ CheckIdle
    /\ BlocksIdle
    /\ TitleIdle
    /\ MainIdle
    /\ LimiterIdle
    /\ ProbeIdle
    /\ StatsIdle

(* --------------------------- interrupt -------------------------------- *)

\* The signal goroutine of main: <-sigChan; cancel().
Cancel ==
    /\ ~cancelled
    /\ cancelled' = TRUE
    /\ UNCHANGED << otherVars, fastMode, fidx, fpc, urlChan, urlClosed, wpc, wurl, wres,
                    tokens, wg, cpc, resultsChan, resClosed, spc, stats,
                    histVars >>

(* ----------------------------- feeder --------------------------------- *)

\* select case urlChan <- url: ready when the buffer has room.
FeederSend ==
    /\ fpc = "run"
    /\ fidx <= NumURLs
    /\ urlClosed > 0 \/ Len(urlChan) < ChanCap
    /\ urlChan' = Append(urlChan, fidx)
    /\ fidx' = fidx + 1
    /\ sendOnClosed' = IF urlClosed > 0 THEN sendOnClosed \cup {"url"}
                       ELSE sendOnClosed
    /\ UNCHANGED << otherVars, permits, fastMode, cancelled, fpc, urlClosed, wpc, wurl, wres,
                    tokens, wg, cpc, resultsChan, resClosed, spc, stats,
                    pulls, emitted, consumed, lateRecv, probed, crashedURLs,
                    crashedWorkers >>

\* Mutant: the feeder sends without selecting on ctx.Done().
FeederCtxDone_NoCtxCase ==
    /\ FALSE
    /\ UNCHANGED vars

\* select case <-ctx.Done(): return, and the deferred close(urlChan).
FeederCtxDone ==
    /\ fpc = "run"
    /\ fidx <= NumURLs
    /\ cancelled
    /\ fpc' = "done"
    /\ urlClosed' = urlClosed + 1
    /\ UNCHANGED << otherVars, fastMode, cancelled, fidx, urlChan, wpc, wurl, wres,
                    tokens, wg, cpc, resultsChan, resClosed, spc, stats,
                    histVars >>

\* Mutant: the feeder returns without closing urlChan.
FeederFinish_NoClose ==
    /\ fpc = "run"
    /\ fidx > NumURLs
    /\ fpc' = "done"
    /\ UNCHANGED << otherVars, fastMode, cancelled, fidx, urlChan, urlClosed, wpc, wurl,
                    wres, tokens, wg, cpc, resultsChan, resClosed, spc, stats,
                    histVars >>

\* The range over urls is over: the deferred close(urlChan).
FeederFinish ==
    /\ fpc = "run"
    /\ fidx > NumURLs
    /\ fpc' = "done"
    /\ urlClosed' = urlClosed + 1
    /\ UNCHANGED << otherVars, fastMode, cancelled, fidx, urlChan, wpc, wurl, wres,
                    tokens, wg, cpc, resultsChan, resClosed, spc, stats,
                    histVars >>

(* ----------------------------- workers -------------------------------- *)

\* The worker returns from processURLs; the wrapper's deferred wg.Done().
WorkerExit(w) ==
    /\ wpc' = [wpc EXCEPT ![w] = "exit"]
    /\ wurl' = [wurl EXCEPT ![w] = 0]
    /\ wres' = [wres EXCEPT ![w] = NoResult]
    /\ wg' = wg - 1

\* select case <-ctx.Done(): return.
WorkerCtxDone(w) ==
    /\ wpc[w] = "select"
    /\ cancelled
    /\ WorkerExit(w)
    /\ UNCHANGED << otherVars, fastMode, cancelled, fidx, fpc, urlChan, urlClosed,
                    tokens, cpc, resultsChan, resClosed, spc, stats,
                    histVars >>

\* Mutant: the candidate is read but left at the head of the queue.
WorkerRecv_NoDequeue(w) ==
    /\ wpc[w] = "select"
    /\ urlChan # << >>
    /\ LET c == Head(urlChan) IN
        /\ wurl' = [wurl EXCEPT ![w] = c]
        /\ pulls' = [pulls EXCEPT ![c] = @ + 1]
        /\ lateRecv' = IF cancelled THEN lateRecv \cup {c} ELSE lateRecv
        /\ wpc' = [wpc EXCEPT ![w] = IF fastMode THEN "probe" ELSE "wait"]
        /\ probed' = IF fastMode THEN probed \cup {c} ELSE probed
    /\ UNCHANGED << otherVars, permits, fastMode, cancelled, fidx, fpc, urlChan, urlClosed, wres,
                    tokens, wg, cpc, resultsChan, resClosed, spc, stats,
                    emitted, consumed, crashedURLs, crashedWorkers,
                    sendOnClosed >>

\* Mutant: CheckURL is called without limiter.Wait in every mode.
WorkerRecv_SkipLimiter(w) ==
    /\ wpc[w] = "select"
    /\ urlChan # << >>
    /\ LET c == Head(urlChan) IN
        /\ urlChan' = Tail(urlChan)
        /\ wurl' = [wurl EXCEPT ![w] = c]
        /\ pulls' = [pulls EXCEPT ![c] = @ + 1]
        /\ lateRecv' = IF cancelled THEN lateRecv \cup {c} ELSE lateRecv
        /\ wpc' = [wpc EXCEPT ![w] = "probe"]
        /\ probed' = probed \cup {c}
    /\ UNCHANGED << otherVars, permits, fastMode, cancelled, fidx, fpc, urlClosed, wres,
                    tokens, wg, cpc, resultsChan, resClosed, spc, stats,
                    emitted, consumed, crashedURLs, crashedWorkers,
                    sendOnClosed >>

\* select case url, ok := <-urls with ok: a candidate is received; in fast
\* mode CheckURL is called next, otherwise limiter.Wait.  Go's select picks
\* among its ready cases at random: the case is ready after cancellation too.
WorkerRecv(w) ==
    /\ wpc[w] = "select"
    /\ urlChan # << >>
    /\ LET c == Head(urlChan) IN
        /\ urlChan' = Tail(urlChan)
        /\ wurl' = [wurl EXCEPT ![w] = c]
        /\ pulls' = [pulls EXCEPT ![c] = @ + 1]
        /\ lateRecv' = IF cancelled THEN lateRecv \cup {c} ELSE lateRecv
        /\ wpc' = [wpc EXCEPT ![w] = IF fastMode THEN "probe" ELSE "wait"]
        /\ probed' = IF fastMode THEN probed \cup {c} ELSE probed
    /\ UNCHANGED << otherVars, permits, fastMode, cancelled, fidx, fpc, urlClosed, wres,
                    tokens, wg, cpc, resultsChan, resClosed, spc, stats,
                    emitted, consumed, crashedURLs, crashedWorkers,
                    sendOnClosed >>

\* Mutant: the worker returns as soon as urlChan is closed, drained or not.
WorkerRecvClosed_NoDrain(w) ==
    /\ wpc[w] = "select"
    /\ urlClosed > 0
    /\ WorkerExit(w)
    /\ UNCHANGED << otherVars, fastMode, cancelled, fidx, fpc, urlChan, urlClosed,
                    tokens, cpc, resultsChan, resClosed, spc, stats,
                    histVars >>

\* select case url, ok := <-urls with !ok: the channel is closed and drained.
WorkerRecvClosed(w) ==
    /\ wpc[w] = "select"
    /\ urlChan = << >>
    /\ urlClosed > 0
    /\ WorkerExit(w)
    /\ UNCHANGED << otherVars, fastMode, cancelled, fidx, fpc, urlChan, urlClosed,
                    tokens, cpc, resultsChan, resClosed, spc, stats,
                    histVars >>

\* Mutant: limiter.Wait does not look at ctx on entry.
LimiterWaitEnter_NoCtxCheck(w) ==
    /\ wpc[w] = "wait"
    /\ IF tokens > 0
       THEN /\ tokens' = tokens - 1
            /\ wpc' = [wpc EXCEPT ![w] = "probe"]
            /\ probed' = probed \cup {wurl[w]}
            /\ permits' = [permits EXCEPT ![wurl[w]] = @ + 1]
            /\ UNCHANGED << wurl, wres, wg >>
       ELSE /\ wpc' = [wpc EXCEPT ![w] = "waiting"]
            /\ UNCHANGED << wurl, wres, wg, tokens, probed, permits >>
    /\ UNCHANGED << otherVars, fastMode, cancelled, fidx, fpc, urlChan, urlClosed,
                    cpc, resultsChan, resClosed, spc, stats,
                    pulls, emitted, consumed, lateRecv, crashedURLs,
                    crashedWorkers, sendOnClosed >>

\* limiter.Wait(ctx), on entry: an error when ctx is already done; the token
\* when one is there; otherwise the worker waits for its turn.
LimiterWaitEnter(w) ==
    /\ wpc[w] = "wait"
    /\ IF cancelled
       THEN /\ WorkerExit(w)
            /\ UNCHANGED << tokens, probed, permits >>
       ELSE IF tokens > 0
       THEN /\ tokens' = tokens - 1
            /\ wpc' = [wpc EXCEPT ![w] = "probe"]
            /\ probed' = probed \cup {wurl[w]}
            /\ permits' = [permits EXCEPT ![wurl[w]] = @ + 1]
            /\ UNCHANGED << wurl, wres, wg >>
       ELSE /\ wpc' = [wpc EXCEPT ![w] = "waiting"]
            /\ UNCHANGED << wurl, wres, wg, tokens, probed, permits >>
    /\ UNCHANGED << otherVars, fastMode, cancelled, fidx, fpc, urlChan, urlClosed,
                    cpc, resultsChan, resClosed, spc, stats,
                    pulls, emitted, consumed, lateRecv, crashedURLs,
                    crashedWorkers, sendOnClosed >>

\* limiter.Wait(ctx), the timer of the waiting worker fires: it has its token.
LimiterWaitTimer(w) ==
    /\ wpc[w] = "waiting"
    /\ tokens > 0
    /\ tokens' = tokens - 1
    /\ wpc' = [wpc EXCEPT ![w] = "probe"]
    /\ probed' = probed \cup {wurl[w]}
    /\ permits' = [permits EXCEPT ![wurl[w]] = @ + 1]
    /\ UNCHANGED << otherVars, fastMode, cancelled, fidx, fpc, urlChan, urlClosed, wurl,
                    wres, wg, cpc, resultsChan, resClosed, spc, stats,
                    pulls, emitted, consumed, lateRecv, crashedURLs,
                    crashedWorkers, sendOnClosed >>

\* limiter.Wait(ctx), ctx is done while the worker waits: Wait returns the
\* error and processURLs returns.
LimiterWaitCancel(w) ==
    /\ wpc[w] = "waiting"
    /\ cancelled
    /\ WorkerExit(w)
    /\ UNCHANGED << otherVars, fastMode, cancelled, fidx, fpc, urlChan, urlClosed,
                    tokens, cpc, resultsChan, resClosed, spc, stats,
                    histVars >>

\* The bucket of rate.NewLimiter(rate.Limit(config.Rate), 1) refills with time.
LimiterRefill ==
    /\ tokens < 1
    /\ tokens' = tokens + 1
    /\ UNCHANGED << otherVars, fastMode, cancelled, fidx, fpc, urlChan, urlClosed, wpc,
                    wurl, wres, wg, cpc, resultsChan, resClosed, spc, stats,
                    histVars >>

\* client.CheckURL returns (its requests carry ctx and the client's timeout:
\* it returns after cancellation too) and the Stats counters are updated.
CheckURLReturn(w, o) ==
    /\ wpc[w] = "probe"
    /\ LET r == [url |-> wurl[w], alive |-> o.alive, verified |-> o.verified,
                 error |-> o.error] IN
        /\ wres' = [wres EXCEPT ![w] = r]
        /\ stats' = UpdateStats(stats, r)
    /\ wpc' = [wpc EXCEPT ![w] = "send"]
    /\ UNCHANGED << otherVars, fastMode, cancelled, fidx, fpc, urlChan, urlClosed, wurl,
                    tokens, wg, cpc, resultsChan, resClosed, spc, histVars >>

\* A panic inside CheckURL: the deferred recover() of processURLs runs, which
\* is deferred at function level: processURLs returns, nothing is sent.
WorkerPanic(w) ==
    /\ wpc[w] = "probe"
    /\ crashedURLs' = crashedURLs \cup {wurl[w]}
    /\ crashedWorkers' = crashedWorkers \cup {w}
    /\ WorkerExit(w)
    /\ UNCHANGED << otherVars, permits, fastMode, cancelled, fidx, fpc, urlChan, urlClosed,
                    tokens, cpc, resultsChan, resClosed, spc, stats,
                    pulls, emitted, consumed, lateRecv, probed, sendOnClosed >>

\* results <- result: a plain send, ready when the buffer has room (a send on
\* a closed channel would go through as a panic).
WorkerSend(w) ==
    /\ wpc[w] = "send"
    /\ resClosed > 0 \/ Len(resultsChan) < ChanCap
    /\ resultsChan' = Append(resultsChan, wres[w])
    /\ emitted' = [emitted EXCEPT ![wurl[w]] = Append(@, wres[w])]
    /\ sendOnClosed' = IF resClosed > 0 THEN sendOnClosed \cup {"results"}
                       ELSE sendOnClosed
    /\ wpc' = [wpc EXCEPT ![w] = "select"]
    /\ wurl' = [wurl EXCEPT ![w] = 0]
    /\ wres' = [wres EXCEPT ![w] = NoResult]
    /\ UNCHANGED << otherVars, permits, fastMode, cancelled, fidx, fpc, urlChan, urlClosed,
                    tokens, wg, cpc, resClosed, spc, stats,
                    pulls, consumed, lateRecv, probed, crashedURLs,
                    crashedWorkers >>

(* ------------------------- closer and sink ---------------------------- *)

\* Mutant: close(resultsChan) without wg.Wait().
CloserClose_NoWait ==
    /\ cpc = "wait"
    /\ cpc' = "done"
    /\ resClosed' = resClosed + 1
    /\ UNCHANGED << otherVars, fastMode, cancelled, fidx, fpc, urlChan, urlClosed, wpc,
                    wurl, wres, tokens, wg, resultsChan, spc, stats,
                    histVars >>

\* go func() { wg.Wait(); close(resultsChan) }()
CloserClose ==
    /\ cpc = "wait"
    /\ wg = 0
    /\ cpc' = "done"
    /\ resClosed' = resClosed + 1
    /\ UNCHANGED << otherVars, fastMode, cancelled, fidx, fpc, urlChan, urlClosed, wpc,
                    wurl, wres, tokens, wg, resultsChan, spc, stats,
                    histVars >>

\* for result := range resultsChan { ... outputResult ... }
SinkRecv ==
    /\ spc = "run"
    /\ resultsChan # << >>
    /\ consumed' = [consumed EXCEPT ![Head(resultsChan).url] = @ + 1]
    /\ resultsChan' = Tail(resultsChan)
    /\ UNCHANGED << otherVars, permits, fastMode, cancelled, fidx, fpc, urlChan, urlClosed, wpc,
                    wurl, wres, tokens, wg, cpc, resClosed, spc, stats,
                    pulls, emitted, lateRecv, probed, crashedURLs,
                    crashedWorkers, sendOnClosed >>

\* The range ends on the closed, drained channel; deferred close(resultsDone),
\* which main waits for.
SinkDone ==
    /\ spc = "run"
    /\ resultsChan = << >>
    /\ resClosed > 0
    /\ spc' = "done"
    /\ UNCHANGED << otherVars, permits, fastMode, cancelled, fidx, fpc, urlChan, urlClosed, wpc,
                    wurl, wres, tokens, wg, cpc, resultsChan, resClosed,
                    stats, pulls, emitted, consumed, lateRecv, probed,
                    crashedURLs, crashedWorkers, sendOnClosed >>

(* --------------------------- specification ---------------------------- *)

FeederStep == FeederSend \/ FeederCtxDone \/ FeederFinish

WorkerStep(w) ==
    \/ WorkerCtxDone(w)
    \/ WorkerRecv(w)
    \/ WorkerRecvClosed(w)
    \/ LimiterWaitEnter(w)
    \/ LimiterWaitTimer(w)
    \/ LimiterWaitCancel(w)
    \/ \E o \in ProbeOutcomes : CheckURLReturn(w, o)
    \/ WorkerSend(w)

SinkStep == SinkRecv \/ SinkDone

Next ==
    \/ Cancel
    \/ FeederSend
    \/ FeederCtxDone
    \/ FeederFinish
    \/ \E w \in Workers : WorkerCtxDone(w)
    \/ \E w \in Workers : WorkerRecv(w)
    \/ \E w \in Workers : WorkerRecvClosed(w)
    \/ \E w \in Workers : LimiterWaitEnter(w)
    \/ \E w \in Workers : LimiterWaitTimer(w)
    \/ \E w \in Workers : LimiterWaitCancel(w)
    \/ LimiterRefill
    \/ \E w \in Workers : \E o \in ProbeOutcomes : CheckURLReturn(w, o)
    \/ \E w \in Workers : WorkerPanic(w)
    \/ \E w \in Workers : WorkerSend(w)
    \/ CloserClose
    \/ SinkRecv
    \/ SinkDone

Spec == Init /\ [][Next]_vars

\* A step of the program: of one of its goroutines or of the limiter's clock.
\* The interrupt and a panic are events of the environment.
ProgramStep ==
    \/ FeederStep
    \/ \E w \in Workers : WorkerStep(w)
    \/ LimiterRefill
    \/ CloserClose
    \/ SinkStep

\* The Go scheduler runs some runnable goroutine as long as there is one, and
\* timers fire; the interrupt and a panic need not happen.
Fairness == WF_vars(ProgramStep)

FairSpec == Spec /\ Fairness

(* ------------------------------ ProbeSpec ----------------------------- *)

schedulerVars ==
    << fastMode, cancelled, fidx, fpc, urlChan, urlClosed, wpc, wurl, wres,
       tokens, wg, cpc, resultsChan, resClosed, spc, stats, histVars >>

\* The variables CheckURL leaves alone.
notProbeVars == << schedulerVars, statsVars, limiterVars, mainVars, titleVars, blocksVars, checkVars, semVars, writerVars, v11Vars >>

ProbeInit ==
    /\ fastMode = FALSE
    /\ SchedulerStart
    /\ V11Idle
    /\ WriterIdle
    /\ SemIdle
    /\ CheckIdle
    /\ BlocksIdle
    /\ TitleIdle
    /\ MainIdle
    /\ LimiterIdle
    /\ StatsIdle
    /\ pin \in ProbeInputs
    /\ pout = NoOutput
    /\ ppc = "call"

\* result := client.CheckURL(ctx, url, config)
ProbeCheckURL ==
    /\ ppc = "call"
    /\ pout' = CheckURL(pin)
    /\ ppc' = "done"
    /\ UNCHANGED << pin, notProbeVars >>

ProbeNext == ProbeCheckURL

ProbeSpec == ProbeInit /\ [][ProbeNext]_vars

(* ------------------------------ StatsSpec ----------------------------- *)

\* The scheduler's variables but the Stats counters.
notStatsVars ==
    << fastMode, cancelled, fidx, fpc, urlChan, urlClosed, wpc, wurl, wres,
       tokens, wg, cpc, resultsChan, resClosed, spc, histVars, probeVars, limiterVars, mainVars, titleVars, blocksVars, checkVars, semVars, writerVars, v11Vars >>

\* Mutant: the add is a load and a store; of two adds to the same counter
\* that overlap, the first is overwritten.
AddUint64_LoadStore(w, val, delta) ==
    IF \E v \in Workers \ {w} : apc[v] = apc[w] THEN val ELSE val + delta

\* atomic.AddUint64(addr, delta) by worker w, val the value at addr.
AddUint64(w, val, delta) == val + delta

StatsInit ==
    /\ fastMode = FALSE
    /\ SchedulerStart
    /\ V11Idle
    /\ WriterIdle
    /\ SemIdle
    /\ CheckIdle
    /\ BlocksIdle
    /\ TitleIdle
    /\ MainIdle
    /\ LimiterIdle
    /\ ProbeIdle
    /\ apc = [w \in Workers |-> "call"]
    /\ ares = [w \in Workers |-> NoResult]
    /\ acount = 0
    /\ produced = [checked |-> 0, alive |-> 0, verified |-> 0, errors |-> 0]

\* result := client.CheckURL(ctx, url, config), for the next candidate.
StatsCheckURL(w, o) ==
    /\ apc[w] = "call"
    /\ acount < NumURLs
    /\ acount' = acount + 1
    /\ ares' = [ares EXCEPT ![w] = [url |-> acount + 1, alive |-> o.alive,
                                      verified |-> o.verified,
                                      error |-> o.error]]
    /\ produced' = UpdateStats(produced, o)
    /\ apc' = [apc EXCEPT ![w] = "checked"]
    /\ UNCHANGED << stats, notStatsVars >>

\* atomic.AddUint64(&stats.checked, 1)
StatsAddChecked(w) ==
    /\ apc[w] = "checked"
    /\ stats' = [stats EXCEPT !.checked = AddUint64(w, @, 1)]
    /\ apc' = [apc EXCEPT ![w] = "alive"]
    /\ UNCHANGED << ares, acount, produced, notStatsVars >>

\* Mutant: stats.alive is not updated.
StatsAddAlive_Skipped(w) ==
    /\ apc[w] = "alive"
    /\ apc' = [apc EXCEPT ![w] = "verified"]
    /\ UNCHANGED << stats, ares, acount, produced, notStatsVars >>

\* if result.Alive { atomic.AddUint64(&stats.alive, 1) }
StatsAddAlive(w) ==
    /\ apc[w] = "alive"
    /\ stats' = IF ares[w].alive
                THEN [stats EXCEPT !.alive = AddUint64(w, @, 1)]
                ELSE stats
    /\ apc' = [apc EXCEPT ![w] = "verified"]
    /\ UNCHANGED << ares, acount, produced, notStatsVars >>

\* if result.Verified { atomic.AddUint64(&stats.verified, 1) }
StatsAddVerified(w) ==
    /\ apc[w] = "verified"
    /\ stats' = IF ares[w].verified
                THEN [stats EXCEPT !.verified = AddUint64(w, @, 1)]
                ELSE stats
    /\ apc' = [apc EXCEPT ![w] = "errors"]
    /\ UNCHANGED << ares, acount, produced, notStatsVars >>

\* if result.Error != "" { atomic.AddUint64(&stats.errors, 1) }
StatsAddErrors(w) ==
    /\ apc[w] = "errors"
    /\ stats' = IF ares[w].error # ""
                THEN [stats EXCEPT !.errors = AddUint64(w, @, 1)]
                ELSE stats
    /\ apc' = [apc EXCEPT ![w] = "send"]
    /\ UNCHANGED << ares, acount, produced, notStatsVars >>

\* results <- result, and the next turn of the loop.
StatsSend(w) ==
    /\ apc[w] = "send"
    /\ apc' = [apc EXCEPT ![w] = "call"]
    /\ ares' = [ares EXCEPT ![w] = NoResult]
    /\ UNCHANGED << stats, acount, produced, notStatsVars >>

\* No candidate is left: processURLs returns.
StatsExit(w) ==
    /\ apc[w] = "call"
    /\ acount = NumURLs
    /\ apc' = [apc EXCEPT ![w] = "exit"]
    /\ UNCHANGED << stats, ares, acount, produced, notStatsVars >>

StatsNext ==
    \/ \E w \in Workers : \E o \in ProbeOutcomes : StatsCheckURL(w, o)
    \/ \E w \in Workers : StatsAddChecked(w)
    \/ \E w \in Workers : StatsAddAlive(w)
    \/ \E w \in Workers : StatsAddVerified(w)
    \/ \E w \in Workers : StatsAddErrors(w)
    \/ \E w \in Workers : StatsSend(w)
    \/ \E w \in Workers : StatsExit(w)

StatsSpec == StatsInit /\ [][StatsNext]_vars

(* ----------------------------- LimiterSpec ---------------------------- *)

\* config.Rate, requests per second (DEFAULT_RATE scaled down).
Rate == 2

\* Burst of rate.NewLimiter(rate.Limit(config.Rate), 1).
Burst == 1

\* Time units per 1/Rate s: the clock is finer than the refill interval.
Resolution == 2

\* One token, in the units of limTokens, and the time it takes to refill.
Token == Resolution

Second == Rate * Resolution

\* The length of the run: a second and one more refill.
MaxTime == Second + Token

notLimiterVars == << schedulerVars, probeVars, statsVars, mainVars, titleVars, blocksVars, checkVars, semVars, writerVars, v11Vars >>

\* Limiter.advance: the tokens at time t, capped at the burst.
Advance(t) == Min(Burst * Token, limTokens + (t - limLast))

LimiterInit ==
    /\ fastMode = FALSE
    /\ SchedulerStart
    /\ V11Idle
    /\ WriterIdle
    /\ SemIdle
    /\ CheckIdle
    /\ BlocksIdle
    /\ TitleIdle
    /\ MainIdle
    /\ ProbeIdle
    /\ StatsIdle
    /\ now = 0
    /\ limTokens = Burst * Token
    /\ limLast = 0
    /\ lpc = [w \in Workers |-> "idle"]
    /\ timeToAct = [w \in Workers |-> 0]
    /\ dispatched = << >>
    /\ saturated = TRUE

\* Mutant: the bucket holds Rate tokens.
Reserve_BurstIsRate(t) == Min(Rate * Token, limTokens + (t - limLast)) - Token

\* Limiter.reserveN(t, 1): the tokens left once the reservation is booked;
\* below zero the caller has to wait for that many.
Reserve(t) == Advance(t) - Token

\* limiter.Wait(ctx): the reservation is booked; with a token in the bucket
\* Wait returns at once and CheckURL is called, otherwise a timer is set.
LimiterWait(w) ==
    /\ lpc[w] = "idle"
    /\ limTokens' = Reserve(now)
    /\ limLast' = now
    /\ IF Reserve(now) >= 0
       THEN /\ lpc' = [lpc EXCEPT ![w] = "probe"]
            /\ dispatched' = Append(dispatched, now)
            /\ UNCHANGED timeToAct
       ELSE /\ lpc' = [lpc EXCEPT ![w] = "waiting"]
            /\ timeToAct' = [timeToAct EXCEPT ![w] = now - Reserve(now)]
            /\ UNCHANGED dispatched
    /\ UNCHANGED << now, saturated, notLimiterVars >>

\* The timer of limiter.Wait fires: Wait returns nil and CheckURL is called.
LimiterTimer(w) ==
    /\ lpc[w] = "waiting"
    /\ timeToAct[w] = now
    /\ lpc' = [lpc EXCEPT ![w] = "probe"]
    /\ dispatched' = Append(dispatched, now)
    /\ UNCHANGED << now, limTokens, limLast, timeToAct, saturated,
                    notLimiterVars >>

\* CheckURL returns, the Result is sent and the next candidate received.
LimiterProbeReturn(w) ==
    /\ lpc[w] = "probe"
    /\ lpc' = [lpc EXCEPT ![w] = "idle"]
    /\ UNCHANGED << now, limTokens, limLast, timeToAct, dispatched, saturated,
                    notLimiterVars >>

\* Time passes, up to a timer that is due.
LimiterTick ==
    /\ now < MaxTime
    /\ \A w \in Workers : ~(lpc[w] = "waiting" /\ timeToAct[w] = now)
    /\ now' = now + 1
    /\ saturated' = (saturated /\ \E w \in Workers : lpc[w] = "waiting")
    /\ UNCHANGED << limTokens, limLast, lpc, timeToAct, dispatched,
                    notLimiterVars >>

LimiterNext ==
    \/ \E w \in Workers : LimiterWait(w)
    \/ \E w \in Workers : LimiterTimer(w)
    \/ \E w \in Workers : LimiterProbeReturn(w)
    \/ LimiterTick

LimiterSpec == LimiterInit /\ [][LimiterNext]_vars

(* ------------------------------ MainSpec ------------------------------ *)

DEFAULT_WORKERS == 100

\* config.Workers *= 2 in fast mode.
FastWorkersFactor == 2

\* max(config.Workers/2, 10) in verify mode.
VerifyWorkersDivisor == 2

VerifyMinWorkers == 10

\* maxWorkers := runtime.NumCPU() * 50
WorkersPerCPU == 50

\* Values of -t: none given, small, around the verify floor, above the
\* ceiling of one processor; zero and a negative number are accepted too.
RequestedWorkers == { -3, 0, 1, 19, 20, 21, 26, DEFAULT_WORKERS }

CPUs == { 1 }

\* The request timeouts, in seconds: the default, the one of fast mode and
\* the one of verify mode.
DEFAULT_TIMEOUT == 3
FastTimeout == 1
VerifyTimeout == 10

\* Values of -timeout, in seconds: none given, and a long one.
RequestedTimeouts == { DEFAULT_TIMEOUT, 30 }

\* The candidates a worker of the pool probes: answered at once, answered
\* at the retry, never answered.
MainProbeInputs ==
    { [DefaultInput EXCEPT !.attempts = att] :
          att \in { <<TRUE, TRUE, TRUE, TRUE>>, <<FALSE, TRUE, TRUE, TRUE>>,
                    <<FALSE, FALSE, FALSE, FALSE>> } }

notMainVars == << schedulerVars, probeVars, statsVars, limiterVars, titleVars, blocksVars, checkVars, semVars, writerVars, v11Vars >>

\* a / b of Go's int: the quotient truncated towards zero.
Quo(a, b) ==
    LET q == (IF a < 0 THEN -a ELSE a) \div (IF b < 0 THEN -b ELSE b) IN
    IF (a < 0) = (b < 0) THEN q ELSE -q

max(a, b) == IF a > b THEN a ELSE b

\* Mutant: the worker count is not clamped to the ceiling.
Clamp_NoCeiling(workers, cpus) == workers

\* if config.Workers > maxWorkers { config.Workers = maxWorkers }
Clamp(workers, cpus) ==
    IF workers > cpus * WorkersPerCPU THEN cpus * WorkersPerCPU ELSE workers

\* config.Workers after the derivation of main.
EffectiveWorkers(n, fast, verify, cpus) ==
    LET afterFast == IF fast THEN n * FastWorkersFactor ELSE n
        afterVerify == IF verify
                       THEN max(Quo(afterFast, VerifyWorkersDivisor),
                                VerifyMinWorkers)
                       ELSE afterFast
    IN Clamp(afterVerify, cpus)

MainInit ==
    /\ fastMode = FALSE
    /\ SchedulerStart
    /\ V11Idle
    /\ WriterIdle
    /\ SemIdle
    /\ CheckIdle
    /\ BlocksIdle
    /\ TitleIdle
    /\ ProbeIdle
    /\ StatsIdle
    /\ LimiterIdle
    /\ requested \in RequestedWorkers
    /\ numCPU \in CPUs
    /\ \E fast \in BOOLEAN, verify \in BOOLEAN, timeout \in RequestedTimeouts :
           mainConfig = [Workers |-> requested, Timeout |-> timeout,
                         FastMode |-> fast, VerifyMode |-> verify]
    /\ mainPc = "fast"
    /\ mainI = 0
    /\ launched = 0
    /\ returned = 0

\* if config.FastMode { config.Workers *= 2 ... }
MainFast ==
    /\ mainPc = "fast"
    /\ mainConfig' = IF mainConfig.FastMode
                     THEN [mainConfig EXCEPT !.Workers = @ * FastWorkersFactor,
                                             !.Timeout = FastTimeout]
                     ELSE mainConfig
    /\ mainPc' = "verify"
    /\ UNCHANGED << requested, numCPU, mainI, launched, returned,
                    notMainVars >>

\* Mutant: the verify adjustments are skipped when fast mode is on.
MainVerify_NotInFastMode ==
    /\ mainPc = "verify"
    /\ mainConfig' = IF mainConfig.VerifyMode /\ ~mainConfig.FastMode
                     THEN [mainConfig EXCEPT !.Workers =
                              max(Quo(@, VerifyWorkersDivisor),
                                  VerifyMinWorkers),
                                             !.Timeout = VerifyTimeout]
                     ELSE mainConfig
    /\ mainPc' = "clamp"
    /\ UNCHANGED << requested, numCPU, mainI, launched, returned,
                    notMainVars >>

\* if config.VerifyMode { config.Workers = max(config.Workers/2, 10) ... }
MainVerify ==
    /\ mainPc = "verify"
    /\ mainConfig' = IF mainConfig.VerifyMode
                     THEN [mainConfig EXCEPT !.Workers =
                              max(Quo(@, VerifyWorkersDivisor),
                                  VerifyMinWorkers),
                                             !.Timeout = VerifyTimeout]
                     ELSE mainConfig
    /\ mainPc' = "clamp"
    /\ UNCHANGED << requested, numCPU, mainI, launched, returned,
                    notMainVars >>

\* maxWorkers := runtime.NumCPU() * 50 and the clamp.
MainClamp ==
    /\ mainPc = "clamp"
    /\ mainConfig' = [mainConfig EXCEPT !.Workers = Clamp(@, numCPU)]
    /\ mainPc' = "launch"
    /\ UNCHANGED << requested, numCPU, mainI, launched, returned,
                    notMainVars >>

\* for i := 0; i < config.Workers; i++ { wg.Add(1); go func() {...}() }
MainLaunch ==
    /\ mainPc = "launch"
    /\ IF mainI < mainConfig.Workers
       THEN /\ launched' = launched + 1
            /\ mainI' = mainI + 1
            /\ UNCHANGED mainPc
       ELSE /\ mainPc' = "run"
            /\ UNCHANGED << launched, mainI >>
    /\ UNCHANGED << requested, numCPU, mainConfig, returned, notMainVars >>

\* The variables of the other specifications.
notProcessVars == << statsVars, limiterVars, titleVars, blocksVars, checkVars, semVars, writerVars, v11Vars >>

\* processURLs of a launched worker, for one candidate: limiter.Wait unless
\* config.FastMode, then client.CheckURL(ctx, url, config).
MainProcessURL ==
    /\ returned < launched
    /\ ppc = "idle"
    /\ \E in \in MainProbeInputs :
           pin' = [in EXCEPT !.FastMode = mainConfig.FastMode,
                             !.VerifyMode = mainConfig.VerifyMode]
    /\ pout' = CheckURL(pin')
    /\ ppc' = "done"
    /\ permits' = IF mainConfig.FastMode THEN permits
                  ELSE [permits EXCEPT ![1] = @ + 1]
    /\ UNCHANGED << mainVars, notProcessVars, fastMode, cancelled, fidx, fpc, urlChan,
                    urlClosed, wpc, wurl, wres, tokens, wg, cpc, resultsChan,
                    resClosed, spc, stats, pulls, emitted, consumed, lateRecv,
                    probed, crashedURLs, crashedWorkers, sendOnClosed >>

\* processURLs of one worker returns: defer wg.Done().
MainWorkerReturns ==
    /\ returned < launched
    /\ returned' = returned + 1
    /\ UNCHANGED << requested, numCPU, mainConfig, mainPc, mainI, launched,
                    notMainVars >>

\* wg.Wait() is over and main goes on to its summary.
MainFinish ==
    /\ mainPc = "run"
    /\ returned = launched
    /\ mainPc' = "done"
    /\ UNCHANGED << requested, numCPU, mainConfig, mainI, launched, returned,
                    notMainVars >>

MainNext ==
    \/ MainFast
    \/ MainVerify
    \/ MainClamp
    \/ MainLaunch
    \/ MainProcessURL
    \/ MainWorkerReturns
    \/ MainFinish

MainSpec == MainInit /\ [][MainNext]_vars

(* ------------------------------ TitleSpec ----------------------------- *)

notTitleVars ==
    << schedulerVars, probeVars, statsVars, limiterVars, mainVars, blocksVars, checkVars, semVars, writerVars, v11Vars >>

\* n times the character c.
Repeat(c, n) == [i \in 1..n |-> c]

\* What comes before the title: nothing, a tag, or enough to push the end
\* of the title element beyond the bytes that are read.
DocPrefixes ==
    { << >>, <<"<","p",">">>, Repeat(" ", TitleBodySize - Len(TagTitle) - 3) }

\* Open tags: plain, in capitals, with an attribute, with a line break
\* before the ">".
DocOpenTags == { TagTitle, <<"<","T","I","T","L","E",">">>, <<"<","t","i","t","l","e"," ","i","d","=","x",">">>, <<"<","t","i","t","l","e","\n",">">> }

\* Texts: none, blank, short, with white space to clean, with a character
\* reference, of TitleMaxLen characters, longer.
DocTexts ==
    { << >>, << " " >>, <<"T">>, <<" ","a"," ","\n","b"," ">>, <<"a","&","a","m","p",";","b">>,
      Repeat("a", TitleMaxLen), Repeat("a", TitleMaxLen) \o <<"b","c">> }

\* Close tags: plain, in capitals, with a space before the ">", missing.
DocCloseTags == { TagTitleClose, <<"<","/","T","I","T","L","E",">">>, <<"<","/","t","i","t","l","e"," ",">">>, << >> }

\* What follows: nothing, or a second title element.
DocSuffixes == { << >>, <<"<","t","i","t","l","e",">","Z","<","/","t","i","t","l","e",">">> }

\* Bodies with a title element, and bodies without one.
TitleDocs ==
    { [prefix |-> p, open |-> o, text |-> x, close |-> c, suffix |-> s] :
          p \in DocPrefixes, o \in DocOpenTags, x \in DocTexts,
          c \in DocCloseTags, s \in DocSuffixes }
    \cup
    { [prefix |-> p, open |-> << >>, text |-> x, close |-> << >>,
       suffix |-> << >>] : p \in DocPrefixes, x \in DocTexts }

\* The bytes of the body.
DocBody(d) == d.prefix \o d.open \o d.text \o d.close \o d.suffix

TitleInit ==
    /\ fastMode = FALSE
    /\ SchedulerStart
    /\ V11Idle
    /\ WriterIdle
    /\ SemIdle
    /\ CheckIdle
    /\ BlocksIdle
    /\ ProbeIdle
    /\ StatsIdle
    /\ LimiterIdle
    /\ MainIdle
    /\ tdoc \in TitleDocs
    /\ tfast = << >>
    /\ trobust = << >>
    /\ tpc = {}

\* ac.extractTitle(body, false)
TitleFast ==
    /\ "fast" \notin tpc
    /\ tfast' = extractTitle(DocBody(tdoc), FALSE)
    /\ tpc' = tpc \cup { "fast" }
    /\ UNCHANGED << tdoc, trobust, notTitleVars >>

\* ac.extractTitle(body, true)
TitleRobust ==
    /\ "robust" \notin tpc
    /\ trobust' = extractTitle(DocBody(tdoc), TRUE)
    /\ tpc' = tpc \cup { "robust" }
    /\ UNCHANGED << tdoc, tfast, notTitleVars >>

TitleNext == TitleFast \/ TitleRobust

TitleSpec == TitleInit /\ [][TitleNext]_vars

(* ----------------------- v1.0: BlocksSpec ----------------------------- *)

notBlocksVars ==
    << schedulerVars, probeVars, statsVars, limiterVars, mainVars,
       titleVars, checkVars, semVars, writerVars, v11Vars >>

\* The longest input list.
MaxListLen == 6

\* The largest value of -b.
MaxBlocksFlag == 7

\* The values of -b: valid ones, zero and a negative one.
BlocksFlags == (-2)..MaxBlocksFlag

\* The input lists: the lines of the file, which are told apart by their
\* position here.
URLLists == { [i \in 1..n |-> i] : n \in 1..MaxListLen }

\* main: numBlocks as passed to divideIntoBlocks.
NumBlocks(totalURLs, b) ==
    LET n == IF totalURLs < b THEN totalURLs ELSE b IN
    IF n = 0 THEN 1 ELSE n

\* divideIntoBlocks: blockSize := len(urls) / numBlocks
BlockSize(urls, numBlocks) == Quo(Len(urls), numBlocks)

\* divideIntoBlocks: the loop from i on, for a positive blockSize.
RECURSIVE BlocksFrom(_, _, _)
BlocksFrom(urls, blockSize, i) ==
    IF i < Len(urls)
    THEN LET end == Min(i + blockSize, Len(urls)) IN
         << Slice(urls, i, end) >> \o BlocksFrom(urls, blockSize, i + blockSize)
    ELSE << >>

divideIntoBlocks(urls, numBlocks) ==
    BlocksFrom(urls, BlockSize(urls, numBlocks), 0)

BlocksInit ==
    /\ fastMode = FALSE
    /\ SchedulerStart
    /\ V11Idle
    /\ WriterIdle
    /\ SemIdle
    /\ CheckIdle
    /\ ProbeIdle
    /\ StatsIdle
    /\ LimiterIdle
    /\ MainIdle
    /\ TitleIdle
    /\ burls \in URLLists
    /\ maxBlocks \in BlocksFlags
    /\ blocks = << >>
    /\ bpc = "call"

\* blocks := divideIntoBlocks(urls, numBlocks), with a block size of at
\* least one.
BlocksDivide ==
    /\ bpc = "call"
    /\ BlockSize(burls, NumBlocks(Len(burls), maxBlocks)) > 0
    /\ blocks' = divideIntoBlocks(burls, NumBlocks(Len(burls), maxBlocks))
    /\ bpc' = "done"
    /\ UNCHANGED << burls, maxBlocks, notBlocksVars >>

\* A block size of zero: i never advances and the loop appends empty
\* blocks for ever.
BlocksHang ==
    /\ bpc = "call"
    /\ BlockSize(burls, NumBlocks(Len(burls), maxBlocks)) = 0
    /\ bpc' = "hang"
    /\ UNCHANGED << burls, maxBlocks, blocks, notBlocksVars >>

\* A negative block size: urls[0:end] with a negative end panics.
BlocksPanic ==
    /\ bpc = "call"
    /\ BlockSize(burls, NumBlocks(Len(burls), maxBlocks)) < 0
    /\ bpc' = "panic"
    /\ UNCHANGED << burls, maxBlocks, blocks, notBlocksVars >>

BlocksNext == BlocksDivide \/ BlocksHang \/ BlocksPanic

BlocksSpec == BlocksInit /\ [][BlocksNext]_vars

(* ------------------------ v1.0: CheckSpec ----------------------------- *)

notCheckVars ==
    << schedulerVars, probeVars, statsVars, limiterVars, mainVars,
       titleVars, blocksVars, semVars, writerVars, v11Vars >>

\* The largest value of -r.
MaxRetries == 1

\* The values of -r; with a negative one the loop body never runs.
RetryFlags == (-1)..MaxRetries

\* The lines of the input file: a host, and a line net/url does not parse.
V1URLs == { <<"a",".","i","o">>, <<"a"," ","b">> }

\* http.StatusOK
StatusOK == 200

\* What client.Do returns for one request: 200, another status, an error.
V1Answers ==
    { [err |-> FALSE, StatusCode |-> StatusOK],
      [err |-> FALSE, StatusCode |-> 404],
      [err |-> TRUE, StatusCode |-> 0] }

V1Schemes == { SchemeHTTP, SchemeHTTPS }

CheckInputs ==
    [ url : V1URLs,
      retries : RetryFlags,
      httpsOnly : BOOLEAN,
      answers : [V1Schemes \X (0..MaxRetries) -> V1Answers] ]

\* http.NewRequestWithContext: err == nil; a space in the host is refused.
NewRequestOK(rawurl) == \A k \in 1..Len(rawurl) : rawurl[k] # " "

\* Mutant: any response counts.
IsStatusOK_AnyResponse(resp) == ~resp.err

\* err == nil && resp.StatusCode == http.StatusOK
IsStatusOK(resp) == ~resp.err /\ resp.StatusCode = StatusOK

\* One request of round i: nothing is sent when the request cannot be built.
V1Attempt(in, scheme, i) ==
    LET fullURL == scheme \o in.url IN
    [ url |-> fullURL,
      sent |-> NewRequestOK(fullURL),
      ok |-> NewRequestOK(fullURL) /\ IsStatusOK(in.answers[<< scheme, i >>]),
      request |-> [scheme |-> scheme, url |-> fullURL, round |-> i,
                   resp |-> in.answers[<< scheme, i >>]] ]

\* checkURL: the rounds from i on; reqs are the requests made so far.
RECURSIVE CheckRounds(_, _, _)
CheckRounds(in, i, reqs) ==
    IF i > in.retries
    THEN [fullURL |-> << >>, alive |-> FALSE, requests |-> reqs,
          rounds |-> i, sleeps |-> i]
    ELSE
        LET h == V1Attempt(in, SchemeHTTP, i)
            s == V1Attempt(in, SchemeHTTPS, i)
            reqs1 == IF ~in.httpsOnly /\ h.sent
                     THEN Append(reqs, h.request) ELSE reqs
            reqs2 == IF s.sent THEN Append(reqs1, s.request) ELSE reqs1
        IN
        IF ~in.httpsOnly /\ h.ok
        THEN [fullURL |-> h.url, alive |-> TRUE, requests |-> reqs1,
              rounds |-> i + 1, sleeps |-> i]
        ELSE IF s.ok
        THEN [fullURL |-> s.url, alive |-> TRUE, requests |-> reqs2,
              rounds |-> i + 1, sleeps |-> i]
        ELSE CheckRounds(in, i + 1, reqs2)

checkURL(in) == CheckRounds(in, 0, << >>)

CheckInit ==
    /\ fastMode = FALSE
    /\ SchedulerStart
    /\ V11Idle
    /\ WriterIdle
    /\ SemIdle
    /\ ProbeIdle
    /\ StatsIdle
    /\ LimiterIdle
    /\ MainIdle
    /\ TitleIdle
    /\ BlocksIdle
    /\ chkIn \in CheckInputs
    /\ chkOut = << >>
    /\ chkPc = "call"

\* processBlock: fullURL, alive := checkURL(ctx, url, client, retries, ...)
CheckCall ==
    /\ chkPc = "call"
    /\ chkOut' = checkURL(chkIn)
    /\ chkPc' = "done"
    /\ UNCHANGED << chkIn, notCheckVars >>

CheckNext == CheckCall

CheckSpec == CheckInit /\ [][CheckNext]_vars

(* ---------- v1.0 with -c: the semaphore and the WaitGroup ------------- *)

\* Largest number of blocks and largest -c drawn.
MaxSemBlocks == 3
MaxConcurrency == 2

SemBlocks == 1..semIn.blocks

notSemVars ==
    << schedulerVars, probeVars, statsVars, limiterVars, mainVars,
       titleVars, blocksVars, checkVars, writerVars, v11Vars >>

SemInit ==
    /\ fastMode = FALSE
    /\ SchedulerStart
    /\ V11Idle
    /\ WriterIdle
    /\ ProbeIdle
    /\ StatsIdle
    /\ LimiterIdle
    /\ MainIdle
    /\ TitleIdle
    /\ BlocksIdle
    /\ CheckIdle
    /\ semIn \in [blocks : 1..MaxSemBlocks, c : 0..MaxConcurrency]
    /\ semPc = "acquire"
    /\ semWg = 0
    /\ semTokens = 0
    /\ semG = [g \in 1..semIn.blocks |-> "new"]

\* The process is running: main has not returned and no goroutine has
\* panicked.
SemRunning == semPc \notin {"done", "panic"}

\* The block main launches next.
SemNextBlock == CHOOSE g \in SemBlocks : semG[g] = "new" /\ \A h \in 1..(g - 1) : semG[h] # "new"

\* sync.WaitGroup.Add(delta): a negative counter panics.
WgAdd(delta) ==
    /\ semWg' = semWg + delta
    /\ semPc' = IF semWg + delta < 0 THEN "panic" ELSE semPc

\* main: sem <- struct{}{}; blocks while the channel holds -c tokens.
SemAcquire ==
    /\ semPc = "acquire"
    /\ semTokens < semIn.c
    /\ semTokens' = semTokens + 1
    /\ semPc' = "go"
    /\ UNCHANGED << semIn, semWg, semG, notSemVars >>

\* main: wg.Add(1); go func(block) {...}(block); after the last block main
\* starts the goroutine of wg.Wait and selects on done.
SemGo ==
    /\ semPc = "go"
    /\ semWg' = semWg + 1
    /\ semG' = [semG EXCEPT ![SemNextBlock] = "run"]
    /\ semPc' = IF \E g \in SemBlocks \ {SemNextBlock} : semG[g] = "new"
                THEN "acquire" ELSE "wait"
    /\ UNCHANGED << semIn, semTokens, notSemVars >>

\* processBlock returns: its last defer, func() { <-sem }(), runs first.
SemRelease(g) ==
    /\ SemRunning
    /\ semG[g] = "run"
    /\ semTokens > 0
    /\ semTokens' = semTokens - 1
    /\ semG' = [semG EXCEPT ![g] = "released"]
    /\ UNCHANGED << semIn, semPc, semWg, notSemVars >>

\* processBlock's first defer: wg.Done().
SemInnerDone(g) ==
    /\ SemRunning
    /\ semG[g] = "released"
    /\ WgAdd(-1)
    /\ semG' = [semG EXCEPT ![g] = "inner"]
    /\ UNCHANGED << semIn, semTokens, notSemVars >>

\* The defer of the goroutine's closure: wg.Done() again.
SemOuterDone(g) ==
    /\ SemRunning
    /\ semG[g] = "inner"
    /\ WgAdd(-1)
    /\ semG' = [semG EXCEPT ![g] = "exit"]
    /\ UNCHANGED << semIn, semTokens, notSemVars >>

\* The waiting goroutine: wg.Wait() returns at counter 0; close(done).
SemWaiterClose ==
    /\ semPc = "wait"
    /\ semWg = 0
    /\ semPc' = "closed"
    /\ UNCHANGED << semIn, semWg, semTokens, semG, notSemVars >>

\* main: case <-done; prints the totals and returns, which ends the
\* process and every goroutine still running.
SemMainDone ==
    /\ semPc = "closed"
    /\ semPc' = "done"
    /\ UNCHANGED << semIn, semWg, semTokens, semG, notSemVars >>

SemNext ==
    \/ SemAcquire
    \/ SemGo
    \/ \E g \in SemBlocks : SemRelease(g)
    \/ \E g \in SemBlocks : SemInnerDone(g)
    \/ \E g \in SemBlocks : SemOuterDone(g)
    \/ SemWaiterClose
    \/ SemMainDone

SemSpec == SemInit /\ [][SemNext]_vars

(* ------- v1.0: block goroutines writing to the shared writer ---------- *)

\* Number of blocks, each of one URL.
NumBlockGoroutines == 2

BlockGoroutines == 1..NumBlockGoroutines

notWriterVars ==
    << schedulerVars, probeVars, statsVars, limiterVars, mainVars,
       titleVars, blocksVars, checkVars, semVars, v11Vars >>

\* The first n bytes of the buffer; a line stands for its bytes.
Buffered(n) == [i \in 1..n |-> wrBuf.buf[i]]

WriterInit ==
    /\ fastMode = FALSE
    /\ SchedulerStart
    /\ V11Idle
    /\ ProbeIdle
    /\ StatsIdle
    /\ LimiterIdle
    /\ MainIdle
    /\ TitleIdle
    /\ BlocksIdle
    /\ CheckIdle
    /\ SemIdle
    /\ wrIn \in [BlockGoroutines -> BOOLEAN]
    /\ wrMain = "launch"
    /\ wrG = [g \in BlockGoroutines |-> [pc |-> "new", n |-> 0]]
    /\ wrBuf = [buf |-> [i \in BlockGoroutines |-> 0], n |-> 0]
    /\ wrFile = << >>

\* main: wg.Add(1); go processBlock(...), one block after the other.
WriterLaunch ==
    /\ wrMain = "launch"
    /\ LET g == CHOOSE h \in BlockGoroutines :
                    wrG[h].pc = "new" /\ \A k \in 1..(h - 1) : wrG[k].pc # "new"
       IN  /\ wrG' = [wrG EXCEPT ![g].pc = "check"]
           /\ wrMain' = IF g = NumBlockGoroutines THEN "wait" ELSE "launch"
    /\ UNCHANGED << wrIn, wrBuf, wrFile, notWriterVars >>

\* processBlock: checkURL found the URL dead; the loop and the goroutine end.
WriterDead(g) ==
    /\ wrG[g].pc = "check"
    /\ ~wrIn[g]
    /\ wrG' = [wrG EXCEPT ![g].pc = "exit"]
    /\ UNCHANGED << wrIn, wrMain, wrBuf, wrFile, notWriterVars >>

\* writer.WriteString(fullURL + "\n") begins: it reads b.n to find where
\* the line goes in b.buf.
WriteStringRead(g) ==
    /\ wrG[g].pc = "check"
    /\ wrIn[g]
    /\ wrG' = [wrG EXCEPT ![g] = [pc |-> "copy", n |-> wrBuf.n]]
    /\ UNCHANGED << wrIn, wrMain, wrBuf, wrFile, notWriterVars >>

\* WriteString ends: the line is copied to b.buf[n:] and b.n is stored.
WriteStringCopy(g) ==
    /\ wrG[g].pc = "copy"
    /\ wrBuf' = [buf |-> [wrBuf.buf EXCEPT ![wrG[g].n + 1] = g],
                 n |-> wrG[g].n + 1]
    /\ wrG' = [wrG EXCEPT ![g].pc = "written"]
    /\ UNCHANGED << wrIn, wrMain, wrFile, notWriterVars >>

\* writer.Flush() begins: with b.n = 0 it returns at once, otherwise it
\* writes b.buf[0:b.n] to the file.
FlushWrite(g) ==
    /\ wrG[g].pc = "written"
    /\ wrFile' = wrFile \o Buffered(wrBuf.n)
    /\ wrG' = [wrG EXCEPT ![g].pc = IF wrBuf.n = 0 THEN "exit" ELSE "flush"]
    /\ UNCHANGED << wrIn, wrMain, wrBuf, notWriterVars >>

\* Flush ends: b.n = 0; then liveCount is added to and the goroutine ends.
FlushReset(g) ==
    /\ wrG[g].pc = "flush"
    /\ wrBuf' = [wrBuf EXCEPT !.n = 0]
    /\ wrG' = [wrG EXCEPT ![g].pc = "exit"]
    /\ UNCHANGED << wrIn, wrMain, wrFile, notWriterVars >>

\* main: wg.Wait() returns when every block goroutine has ended.
WriterWait ==
    /\ wrMain = "wait"
    /\ \A g \in BlockGoroutines : wrG[g].pc = "exit"
    /\ wrMain' = "done"
    /\ UNCHANGED << wrIn, wrG, wrBuf, wrFile, notWriterVars >>

WriterNext ==
    \/ WriterLaunch
    \/ \E g \in BlockGoroutines : WriterDead(g)
    \/ \E g \in BlockGoroutines : WriteStringRead(g)
    \/ \E g \in BlockGoroutines : WriteStringCopy(g)
    \/ \E g \in BlockGoroutines : FlushWrite(g)
    \/ \E g \in BlockGoroutines : FlushReset(g)
    \/ WriterWait

WriterSpec == WriterInit /\ [][WriterNext]_vars

(* -------- v1.1: workers, results channel and writer goroutine --------- *)

\* Number of URLs in the list and the value of -w.
NumV11URLs == 3
V11WorkersFlag == 2

V11URLs == 1..NumV11URLs

\* main: blockSize := (totalURLs + *workers - 1) / *workers
V11BlockSize == (NumV11URLs + V11WorkersFlag - 1) \div V11WorkersFlag

\* The goroutines main starts: one for each i = 0, blockSize, 2*blockSize...
\* below totalURLs.
V11Workers == 1..((NumV11URLs + V11BlockSize - 1) \div V11BlockSize)

\* urls[i:end] of worker w: the indices of its first and last URL.
V11First(w) == (w - 1) * V11BlockSize + 1
V11Last(w) == Min(w * V11BlockSize, NumV11URLs)

notV11Vars ==
    << schedulerVars, probeVars, statsVars, limiterVars, mainVars,
       titleVars, blocksVars, checkVars, semVars, writerVars >>

V11Init ==
    /\ fastMode = FALSE
    /\ SchedulerStart
    /\ ProbeIdle
    /\ StatsIdle
    /\ LimiterIdle
    /\ MainIdle
    /\ TitleIdle
    /\ BlocksIdle
    /\ CheckIdle
    /\ SemIdle
    /\ WriterIdle
    /\ v11In \in [V11URLs -> BOOLEAN]
    /\ v11Main = [pc |-> "wait", printed |-> 0]
    /\ v11Next = [w \in V11Workers |-> V11First(w)]
    /\ v11Chan = << >>
    /\ v11Out = [pc |-> "recv", held |-> 0, liveCount |-> 0, file |-> << >>]

\* The process is running: main has not returned.
V11Running == v11Main.pc # "done"

\* processURLs of worker w has returned and the goroutine has called wg.Done.
V11WorkerDone(w) == v11Next[w] > V11Last(w)

\* processURLs: checkURL, then results <- Result{URL, Alive}; the send blocks
\* while the channel holds -w Results.
V11Send(w) ==
    /\ V11Running
    /\ ~V11WorkerDone(w)
    /\ Len(v11Chan) < V11WorkersFlag
    /\ v11Chan' = Append(v11Chan, v11Next[w])
    /\ v11Next' = [v11Next EXCEPT ![w] = @ + 1]
    /\ UNCHANGED << v11In, v11Main, v11Out, notV11Vars >>

\* The writer goroutine: for result := range results receives a Result.
V11Receive ==
    /\ V11Running
    /\ v11Out.pc = "recv"
    /\ v11Chan # << >>
    /\ v11Chan' = Tail(v11Chan)
    /\ v11Out' = [v11Out EXCEPT !.held = Head(v11Chan),
                                !.pc = IF v11In[Head(v11Chan)] THEN "count" ELSE "recv"]
    /\ UNCHANGED << v11In, v11Main, v11Next, notV11Vars >>

\* The writer goroutine: atomic.AddUint64(&liveCount, 1).
V11Count ==
    /\ V11Running
    /\ v11Out.pc = "count"
    /\ v11Out' = [v11Out EXCEPT !.liveCount = @ + 1, !.pc = "write"]
    /\ UNCHANGED << v11In, v11Main, v11Next, v11Chan, notV11Vars >>

\* The writer goroutine: writer.WriteString(result.URL + "\n"); writer.Flush().
V11Write ==
    /\ V11Running
    /\ v11Out.pc = "write"
    /\ v11Out' = [v11Out EXCEPT !.file = Append(@, v11Out.held), !.pc = "recv"]
    /\ UNCHANGED << v11In, v11Main, v11Next, v11Chan, notV11Vars >>

\* The writer goroutine: results is closed and drained, the range loop ends.
V11WriterExit ==
    /\ V11Running
    /\ v11Out.pc = "recv"
    /\ v11Chan = << >>
    /\ v11Main.pc = "closed"
    /\ v11Out' = [v11Out EXCEPT !.pc = "exit"]
    /\ UNCHANGED << v11In, v11Main, v11Next, v11Chan, notV11Vars >>

\* main: wg.Wait() returns when every worker has finished; close(results).
V11WaitClose ==
    /\ v11Main.pc = "wait"
    /\ \A w \in V11Workers : V11WorkerDone(w)
    /\ v11Main' = [v11Main EXCEPT !.pc = "closed"]
    /\ UNCHANGED << v11In, v11Next, v11Chan, v11Out, notV11Vars >>

\* main: prints "Live URLs found" with atomic.LoadUint64(&liveCount) and
\* returns, which ends the process and the writer goroutine with it.
V11Summary ==
    /\ v11Main.pc = "closed"
    /\ v11Main' = [pc |-> "done", printed |-> v11Out.liveCount]
    /\ UNCHANGED << v11In, v11Next, v11Chan, v11Out, notV11Vars >>

V11Next ==
    \/ \E w \in V11Workers : V11Send(w)
    \/ V11Receive
    \/ V11Count
    \/ V11Write
    \/ V11WriterExit
    \/ V11WaitClose
    \/ V11Summary

V11Spec == V11Init /\ [][V11Next]_vars

(* ------------------------- scheduler claims --------------------------- *)

\* The candidates the feeder has put on urlChan.
Fed == 1..(fidx - 1)

\* Number of Results sent on resultsChan.
RECURSIVE SumEmitted(_)
SumEmitted(n) == IF n = 0 THEN 0 ELSE Len(emitted[n]) + SumEmitted(n - 1)

NeverCancelledNoCrash == ~cancelled /\ crashedWorkers = {}

AllWorkersExited == \A w \in Workers : wpc[w] = "exit"

\* C1: in a run that is never cancelled and in which no worker crashes, once
\* resultsChan is closed every candidate fed to urlChan has produced exactly
\* one Result on resultsChan; the sink never receives a Result twice, and when
\* it finishes it has received each of those Results exactly once.
C1_OneResultPerCandidate ==
    /\ \A c \in URLs : consumed[c] <= 1 /\ consumed[c] <= Len(emitted[c])
    /\ (NeverCancelledNoCrash /\ resClosed > 0) =>
           \A c \in Fed : Len(emitted[c]) = 1 /\ emitted[c][1].url = c
    /\ (NeverCancelledNoCrash /\ spc = "done") =>
           /\ Fed = URLs
           /\ \A c \in Fed : consumed[c] = 1

C1_Witness ==
    /\ NeverCancelledNoCrash
    /\ spc = "done"
    /\ \A c \in URLs : Len(emitted[c]) = 1 /\ consumed[c] = 1
    /\ \E c \in URLs : emitted[c][1].alive

\* C2: in every run, cancelled or not, no candidate is received from urlChan
\* more than once, a received candidate is never back on urlChan nor held by
\* two workers, no candidate has more than one Result, and the Results sent
\* never outnumber the candidates submitted.
C2_NoDuplicateNoRequeue ==
    /\ \A c \in URLs :
        /\ pulls[c] <= 1
        /\ Len(emitted[c]) <= 1
        /\ Cardinality({w \in Workers : wurl[w] = c}) <= 1
        /\ pulls[c] >= 1 => \A i \in 1..Len(urlChan) : urlChan[i] # c
        /\ Len(emitted[c]) = 1 => pulls[c] = 1 /\ \A w \in Workers : wurl[w] # c
    /\ SumEmitted(NumURLs) <= Cardinality(Fed)

C2_Witness ==
    /\ cancelled
    /\ spc = "done"
    /\ Cardinality(Fed) = NumURLs
    /\ SumEmitted(NumURLs) = 1
    /\ \E c \in URLs : pulls[c] = 1 /\ emitted[c] = << >>

\* The run is over: the feeder returned, every worker returned, resultsChan
\* is closed and drained, and the sink closed resultsDone.
Terminated ==
    /\ fpc = "done"
    /\ urlClosed = 1
    /\ AllWorkersExited
    /\ cpc = "done"
    /\ resClosed = 1
    /\ resultsChan = << >>
    /\ spc = "done"

\* C3: under fair scheduling, from every state in which cancellation has been
\* signalled the run reaches termination: the feeder stops, every worker
\* exits, resultsChan is closed, the sink drains it and finishes.
C3_CancelledTerminates == cancelled ~> Terminated

C3_Witness ==
    /\ cancelled
    /\ Terminated
    /\ fidx <= NumURLs
    /\ \E c \in URLs : consumed[c] = 1

\* C4: no worker invokes CheckURL for a candidate it received from urlChan
\* after the cancellation, and such a candidate never has a Result.
C4_NoDispatchAfterCancel ==
    \A c \in lateRecv : c \notin probed /\ emitted[c] = << >>

\* C5: after a panic in the processing of a candidate a Result with
\* alive=false and a non-empty error is sent (or about to be sent) for that
\* candidate, and the worker that panicked is still in the pool: it has not
\* returned unless the run is cancelled or urlChan is closed.
C5_PanicBecomesResult ==
    /\ \A c \in crashedURLs :
        \/ \E w \in Workers :
              wres[w].url = c /\ ~wres[w].alive /\ wres[w].error # ""
        \/ /\ Len(emitted[c]) = 1
           /\ ~emitted[c][1].alive
           /\ emitted[c][1].error # ""
    /\ \A w \in crashedWorkers :
           wpc[w] = "exit" => (cancelled \/ urlClosed > 0)

\* The run of C6 has finished in order: urlChan closed after the last
\* candidate, every worker out, resultsChan closed, every Result consumed.
Finished ==
    /\ Terminated
    /\ fidx = NumURLs + 1
    /\ urlChan = << >>
    /\ \A c \in URLs : consumed[c] = 1

\* C6: under fair scheduling a run that is never cancelled and in which every
\* probe returns (no panic) terminates, every candidate's Result consumed.
C6_UncancelledTerminates ==
    [](~cancelled /\ crashedWorkers = {}) => <>Finished

C6_Witness ==
    /\ Finished
    /\ NeverCancelledNoCrash
    /\ stats.checked = NumURLs

\* C7: resultsChan is closed at most once and only when every worker has
\* exited, no Result is sent on it after the close; urlChan is closed at most
\* once, by the feeder as it returns, and nothing is sent on it afterwards.
C7_CloseOnceAfterWorkers ==
    /\ resClosed <= 1
    /\ resClosed = 1 => AllWorkersExited /\ wg = 0
    /\ urlClosed <= 1
    /\ urlClosed = 1 <=> fpc = "done"
    /\ sendOnClosed = {}

C7_Witness ==
    /\ resClosed = 1
    /\ urlClosed = 1
    /\ cancelled
    /\ crashedWorkers # {}
    /\ \E c \in URLs : Len(emitted[c]) = 1

\* C8: once cancellation is signalled every worker that has not returned can
\* take a step of its own, wherever it is suspended.
C8_EverySuspensionCancellable ==
    \A w \in Workers :
        (cancelled /\ wpc[w] # "exit") => ENABLED WorkerStep(w)

(* --------------------------- probe claims ----------------------------- *)

\* CheckURL returned a Result built from a response.
GotResponse == ppc = "done" /\ pout.Status # 0

\* The text holds a signature of the false-positive catalogue, in any case.
HasSignature(text) ==
    \E i \in 1..Len(falsePositivePatterns) :
        Contains(ToLower(text), falsePositivePatterns[i])

\* Verification ran and had a body to inspect: the stored body of a GET
\* probe, or the body of a verification request that did not fail.
VerificationSawBody ==
    /\ GotResponse
    /\ pout.verifRan
    /\ (pin.ExtractTitle \/ ~pin.verifyErr)

\* C9: whenever verification runs on a response whose body holds a catalogue
\* signature within its first VerifySampleSize bytes, the Result has
\* alive=false, verified=false and the error "false_positive_detected",
\* after a HEAD probe as after a GET probe and whatever the first Read returns.
C9_SignatureDowngrades ==
    (VerificationSawBody /\ HasSignature(Prefix(pin.body, VerifySampleSize)))
        => /\ ~pout.Alive
           /\ ~pout.Verified
           /\ pout.Error = ErrFalsePositive

\* resp.StatusCode: the status of the response client.Do returned.
RespStatus == Answered(pin).status

Is2xx(status) == status >= 200 /\ status < 300

IsHTMLLike(contentType) == Contains(ToLower(contentType), TextHTML)

HasGenericServer(server) ==
    \E i \in 1..Len(genericServerSignatures) :
        Contains(ToLower(server), genericServerSignatures[i])

\* A response classified alive, in default mode (neither fast nor verify).
DefaultModeAlive ==
    /\ GotResponse
    /\ ~pin.FastMode
    /\ ~pin.VerifyMode
    /\ isAliveStatus(RespStatus, pin.OnlyStatus)

\* C10 as stated: in default mode verification runs on an alive response
\* exactly when its status is 2xx, its content type is HTML-like and its
\* Server header holds a generic server signature.
C10_VerifiesEvery2xx ==
    DefaultModeAlive =>
        (pout.verifRan <=> /\ Is2xx(RespStatus)
                           /\ IsHTMLLike(pin.contentType)
                           /\ HasGenericServer(pin.server))

\* C10 amended: in default mode verification runs on an alive response
\* exactly when its status is 200, its content type is HTML-like and its
\* Server header holds a generic server signature; the other 2xx statuses
\* are not verified.
C10_VerifiesOnly200 ==
    DefaultModeAlive =>
        (pout.verifRan <=> /\ RespStatus = 200
                           /\ IsHTMLLike(pin.contentType)
                           /\ HasGenericServer(pin.server))

C10_Witness ==
    /\ DefaultModeAlive
    /\ RespStatus = 200
    /\ IsHTMLLike(pin.contentType)
    /\ HasGenericServer(pin.server)
    /\ pout.verifRan
    /\ pout.Verified

\* CheckURL returned.
Returned == ppc = "done"

\* C11: in verify mode (and not fast mode) verification runs on every
\* response classified alive, whatever its status, content type and Server
\* header; in fast mode verification never runs and no Result has
\* verified=true or the error "false_positive_detected".
C11_VerifyAlwaysFastNever ==
    /\ (/\ GotResponse
        /\ pin.VerifyMode
        /\ ~pin.FastMode
        /\ isAliveStatus(RespStatus, pin.OnlyStatus)) => pout.verifRan
    /\ (Returned /\ pin.FastMode) =>
           /\ ~pout.verifRan
           /\ ~pout.Verified
           /\ pout.Error # ErrFalsePositive
           /\ \A i \in 1..Len(pout.requests) :
                  pout.requests[i].type # "verification"

C11_Witness ==
    /\ GotResponse
    /\ pin.VerifyMode
    /\ ~pin.FastMode
    /\ RespStatus = 301
    /\ ~IsHTMLLike(pin.contentType)
    /\ ~HasGenericServer(pin.server)
    /\ pout.verifRan
    /\ pout.Verified

\* C12: whenever verification runs without a request error and the bytes it
\* inspected hold no catalogue signature (among them the case of an empty
\* body), verification passes: the Result has alive=true, verified=true and
\* an empty error.
C12_CleanSamplePasses ==
    (VerificationSawBody /\ ~HasSignature(pout.sample))
        => /\ pout.Alive
           /\ pout.Verified
           /\ pout.Error = << >>

C12_Witness ==
    /\ VerificationSawBody
    /\ pin.body = BodyEmpty
    /\ pout.sample = << >>
    /\ pout.Alive
    /\ pout.Verified
    /\ pout.Error = << >>

\* Verification was triggered and its GET request failed with a transport
\* error.
VerificationFetchFailed ==
    /\ GotResponse
    /\ pout.verifRan
    /\ pin.verifyErr
    /\ \E i \in 1..Len(pout.requests) : pout.requests[i].type = "verification"

\* C13: when verification is triggered and its request fails with a
\* transport error, the Result has alive=true, verified=false and an error
\* that begins with "verification_failed" and carries the failure; it keeps
\* the status of the response.
C13_VerificationErrorKeepsAlive ==
    VerificationFetchFailed
        => /\ pout.Alive
           /\ ~pout.Verified
           /\ HasPrefix(pout.Error, <<"v","e","r","i","f","i","c","a","t","i","o","n","_","f","a","i","l","e","d">>)
           /\ Contains(pout.Error, VerificationError)
           /\ pout.Status = RespStatus

C13_Witness ==
    /\ VerificationFetchFailed
    /\ pin.VerifyMode
    /\ RespStatus = 200
    /\ pin.body = BodyForSale
    /\ pout.Alive
    /\ HasPrefix(pout.Error, ErrVerificationFailed)

\* The body CheckURL stored after a GET probe.
StoredBody == Prefix(pin.body, MaxBodySize)

\* A GET probe on which both verification and title extraction ran.
VerifiedThenTitled ==
    /\ GotResponse
    /\ pin.ExtractTitle
    /\ pout.verifRan
    /\ pout.Alive

\* C14: when verification and title extraction both run on the body of a GET
\* probe, title extraction reads the stored body from its first byte, so the
\* title is the one extracted from the whole stored body, and no request is
\* issued beyond the liveness requests.
C14_TitleReadsFromFirstByte ==
    VerifiedThenTitled
        => /\ pout.Title = extractTitle(StoredBody, pin.RobustTitle)
           /\ \A i \in 1..Len(pout.requests) : pout.requests[i].type = "check"

\* A response that was classified by its status alone: verification,
\* which may turn an alive status into a dead Result, did not run.
ClassifiedByStatus == GotResponse /\ ~pout.verifRan

\* C15 as stated: with no allow-list, a response is alive exactly when its
\* status is a 2xx, a 3xx, one of 401, 403, 405, 406, 409, 410, 429, or a
\* 5xx.
C15_AliveClasses ==
    (ClassifiedByStatus /\ pin.OnlyStatus = << >>) =>
        (pout.Alive <=> \/ RespStatus \in 200..399
                        \/ RespStatus \in { 401, 403, 405, 406, 409, 410, 429 }
                        \/ RespStatus \in 500..599)

\* C15 amended: with no allow-list, a response is alive exactly when its
\* status is one of 200, 201, 202, 204, 206, 301, 302, 303, 307, 308, 401,
\* 403, 405, 406, 409, 410, 429, 500, 501, 502, 503; every other status,
\* among them 203, 205, 300, 304, 404 and 504, is dead.
C15_AliveListedCodes ==
    (ClassifiedByStatus /\ pin.OnlyStatus = << >>) =>
        (pout.Alive <=> RespStatus \in
            { 200, 201, 202, 204, 206, 301, 302, 303, 307, 308, 401, 403,
              405, 406, 409, 410, 429, 500, 501, 502, 503 })

C15_Witness ==
    /\ ClassifiedByStatus
    /\ pin.OnlyStatus = << >>
    /\ RespStatus = 504
    /\ ~pout.Alive
    /\ pout.Error = << >>

\* The status codes of an allow-list.
Members(list) == { list[i] : i \in 1..Len(list) }

\* C16: with a non-empty allow-list configured, a response is alive exactly
\* when its status is a member of the list: a code of the default set that
\* is not in the list is dead, a code outside the default set that is in the
\* list is alive.
C16_AllowListExclusive ==
    (ClassifiedByStatus /\ pin.OnlyStatus # << >>) =>
        (pout.Alive <=> RespStatus \in Members(pin.OnlyStatus))

C16_Witness ==
    /\ ClassifiedByStatus
    /\ pin.OnlyStatus = << 200, 301 >>
    /\ RespStatus = 403
    /\ ~pout.Alive

\* The candidate is malformed: empty, longer than MaxURLLen characters, or
\* with a forbidden character.
Malformed(rawURL) ==
    \/ rawURL = << >>
    \/ Len(rawURL) > MaxURLLen
    \/ \E i \in 1..Len(rawURL) : rawURL[i] \in ForbiddenChars

\* C17: for every malformed candidate, in every mode, CheckURL returns a
\* Result with alive=false, verified=false, status 0 and the error
\* "invalid_url", and issues no request.
C17_MalformedIsInvalidURL ==
    (Returned /\ Malformed(pin.rawURL))
        => /\ ~pout.Alive
           /\ ~pout.Verified
           /\ pout.Status = 0
           /\ pout.Error = <<"i","n","v","a","l","i","d","_","u","r","l">>
           /\ pout.requests = << >>

C17_Witness ==
    /\ Returned
    /\ Len(pin.rawURL) > MaxURLLen
    /\ pin.VerifyMode
    /\ pin.ExtractTitle
    /\ pout.Error = ErrInvalidURL
    /\ pout.requests = << >>

\* Every request CheckURL made for the two protocols ended in a transport
\* error: the first one of each protocol and, outside fast mode, its retry.
BothProtocolsFailed ==
    /\ Returned
    /\ isValidURL(pin.rawURL)
    /\ ~pin.attempts[1]
    /\ ~pin.attempts[3]
    /\ ~pin.FastMode => (~pin.attempts[2] /\ ~pin.attempts[4])

\* The error of the last request made when both protocols fail: the http
\* request in fast mode, its retry otherwise.
LastTransportError == TransportErrors[IF pin.FastMode THEN 3 ELSE 4]

\* C18: for a valid candidate whose two protocol attempts, retries included,
\* all end in a transport error, the Result has alive=false and status 0,
\* and its error is "connection_failed: " followed by the last transport
\* error, or is "no_response".
C18_BothFailConnectionFailed ==
    BothProtocolsFailed
        => /\ ~pout.Alive
           /\ ~pout.Verified
           /\ pout.Status = 0
           /\ \/ /\ HasPrefix(pout.Error, <<"c","o","n","n","e","c","t","i","o","n","_","f","a","i","l","e","d",":">>)
                 /\ pout.Error = <<"c","o","n","n","e","c","t","i","o","n","_","f","a","i","l","e","d",":"," ">> \o LastTransportError
              \/ pout.Error = <<"n","o","_","r","e","s","p","o","n","s","e">>

C18_Witness ==
    /\ BothProtocolsFailed
    /\ ~pin.FastMode
    /\ Len(pout.requests) = 4
    /\ pout.Error = ErrConnectionFailed \o TransportErrors[4]

\* The liveness requests (RequestTypeCheck) of the call, by position.
IsCheckTo(i, scheme) ==
    /\ pout.requests[i].type = "check"
    /\ HasPrefix(pout.requests[i].url, scheme)

\* The https attempt, retry included, ended in a transport error.
HTTPSFailed == ~pin.attempts[1] /\ (pin.FastMode \/ ~pin.attempts[2])

\* The position of the last liveness request.
LastCheck ==
    CHOOSE i \in 1..Len(pout.requests) :
        /\ pout.requests[i].type = "check"
        /\ \A j \in (i + 1)..Len(pout.requests) :
               pout.requests[j].type # "check"

\* C19: for a valid candidate the first request goes to the https:// URL
\* and no https:// liveness request follows an http:// one; when the https
\* attempt fails the http:// URL is requested all the same; the URL of a
\* Result built from a response is the URL of the liveness request that
\* was answered, with its scheme.
C19_HTTPSBeforeHTTP ==
    (Returned /\ isValidURL(pin.rawURL))
        => /\ pout.requests # << >>
           /\ IsCheckTo(1, SchemeHTTPS)
           /\ \A i, j \in 1..Len(pout.requests) :
                  (IsCheckTo(i, SchemeHTTP) /\ IsCheckTo(j, SchemeHTTPS))
                      => j < i
           /\ HTTPSFailed =>
                  \E i \in 1..Len(pout.requests) : IsCheckTo(i, SchemeHTTP)
           /\ GotResponse =>
                  /\ pout.URL = pout.requests[LastCheck].url
                  /\ HasPrefix(pout.URL, IF pin.attempts[1] THEN SchemeHTTPS
                                         ELSE IF pin.FastMode THEN SchemeHTTP
                                         ELSE IF pin.attempts[2]
                                         THEN SchemeHTTPS ELSE SchemeHTTP)

C19_Witness ==
    /\ GotResponse
    /\ pin.rawURL = RawURLWithScheme
    /\ HTTPSFailed
    /\ ~pin.FastMode
    /\ IsCheckTo(1, SchemeHTTPS)
    /\ IsCheckTo(3, SchemeHTTP)
    /\ pout.URL = <<"h","t","t","p",":","/","/","a",".","i","o">>

\* The positions of the liveness requests sent to the URL of protocol p.
ChecksTo(p) ==
    { i \in 1..Len(pout.requests) :
          /\ pout.requests[i].type = "check"
          /\ pout.requests[i].url = FullURL(pin, p) }

\* Protocol p was tried and its first request ended in a transport error.
FirstRequestFailed(p) ==
    /\ Returned
    /\ isValidURL(pin.rawURL)
    /\ ChecksTo(p) # {}
    /\ ~pin.attempts[2 * p - 1]

\* The Result, and the requests made beyond the liveness requests.
Outcome(o) ==
    [o EXCEPT !.requests =
        SelectSeq(o.requests, LAMBDA r : r.type # "check")]

\* The same call, had the first request of protocol p been answered.
AnsweredAtOnce(p) == [pin EXCEPT !.attempts[2 * p - 1] = TRUE]

\* C20: when the first request of a protocol ends in a transport error, in
\* fast mode no other request is made for that protocol; otherwise exactly
\* one more is made, the same request, after a sleep of RetryBackoffMs, and
\* nothing more for that protocol.  When the retry is answered the Result
\* is the one the call returns when the first request is answered.
C20_OneRetryUnlessFast ==
    \A p \in 1..2 :
        /\ Returned => \A i \in ChecksTo(p) :
               pout.requests[i].backoff = 0 \/ i - 1 \in ChecksTo(p)
        /\ FirstRequestFailed(p) =>
            LET first == CHOOSE i \in ChecksTo(p) :
                             \A j \in ChecksTo(p) : i <= j
            IN
            /\ pin.FastMode => ChecksTo(p) = { first }
            /\ ~pin.FastMode =>
                /\ ChecksTo(p) = { first, first + 1 }
                /\ pout.requests[first].backoff = 0
                /\ pout.requests[first + 1] =
                       [pout.requests[first] EXCEPT !.backoff = 50]
                /\ pin.attempts[2 * p] =>
                       Outcome(pout) = Outcome(CheckURL(AnsweredAtOnce(p)))
        /\ (Returned /\ ChecksTo(p) # {} /\ pin.attempts[2 * p - 1]) =>
               Cardinality(ChecksTo(p)) = 1

C20_Witness ==
    /\ FirstRequestFailed(1)
    /\ ~pin.FastMode
    /\ pin.attempts[2]
    /\ Len(pout.requests) = 2
    /\ pout.requests[2].backoff = RetryBackoffMs
    /\ pout.Alive
    /\ pout.Status = 200
    /\ HasPrefix(pout.URL, SchemeHTTPS)

(* ------------------------------- C21 ---------------------------------- *)

\* The positions of the liveness requests of the call.
Checks == { i \in 1..Len(pout.requests) : pout.requests[i].type = "check" }

\* C21: every liveness request of a probe -- to https://, to http://, the
\* first one and the retry -- uses GET when title extraction is requested
\* and HEAD when it is not; a probe of a valid candidate makes at least one.
C21_MethodGETIffTitle ==
    Returned =>
        /\ \A i \in Checks :
               /\ pin.ExtractTitle => pout.requests[i].method = "GET"
               /\ ~pin.ExtractTitle => pout.requests[i].method = "HEAD"
        /\ isValidURL(pin.rawURL) => Checks # {}

C21_Witness ==
    /\ Returned
    /\ pin.ExtractTitle
    /\ ~pin.FastMode
    /\ pin.attempts = <<FALSE, FALSE, FALSE, TRUE>>
    /\ Checks = 1..4
    /\ \A i \in 1..4 : pout.requests[i].method = "GET"
    /\ pout.requests[2].backoff = RetryBackoffMs
    /\ HasPrefix(pout.requests[4].url, SchemeHTTP)

(* ------------------------------- C22 ---------------------------------- *)

\* The workers that are inside limiter.Wait.
InLimiterWait == { w \in Workers : wpc[w] \in { "wait", "waiting" } }

\* Worker w goes into client.CheckURL in this step.
EntersCheckURL(w) == wpc[w] # "probe" /\ wpc'[w] = "probe"

\* C22: outside fast mode a worker enters CheckURL only out of limiter.Wait,
\* in the step in which Wait returns nil and takes the token for the
\* candidate the worker pulled, so every candidate CheckURL is invoked for
\* has exactly one permit, taken after its pull; a worker still inside Wait
\* holds a pulled candidate that has no permit and was not probed.  In fast
\* mode no worker is ever inside limiter.Wait, no permit is taken and the
\* bucket is never touched.
C22_PermitBeforeProbe ==
    /\ [](~fastMode =>
            /\ \A c \in URLs : permits[c] <= pulls[c] /\ permits[c] <= 1
            /\ \A c \in probed : permits[c] = 1 /\ pulls[c] = 1
            /\ \A w \in Workers :
                   /\ wpc[w] = "probe" => permits[wurl[w]] = 1
                   /\ w \in InLimiterWait =>
                          /\ pulls[wurl[w]] = 1
                          /\ permits[wurl[w]] = 0
                          /\ wurl[w] \notin probed)
    /\ [](fastMode =>
            /\ InLimiterWait = {}
            /\ tokens = 1
            /\ \A c \in URLs : permits[c] = 0)
    /\ [][\A w \in Workers : EntersCheckURL(w) =>
              IF fastMode
              THEN wpc[w] = "select" /\ tokens' = tokens
              ELSE /\ w \in InLimiterWait
                   /\ tokens' = tokens - 1
                   /\ permits' = [permits EXCEPT ![wurl[w]] = @ + 1]
                   /\ wurl'[w] = wurl[w]]_vars

C22_Witness ==
    /\ ~fastMode
    /\ \A c \in URLs : c \in probed /\ permits[c] = 1 /\ Len(emitted[c]) = 1
    /\ AllWorkersExited

\* The same run in fast mode: every candidate probed, no permit taken.
C22_FastWitness ==
    /\ fastMode
    /\ \A c \in URLs : c \in probed /\ permits[c] = 0 /\ Len(emitted[c]) = 1
    /\ tokens = 1
    /\ AllWorkersExited

(* ------------------------------- C23 ---------------------------------- *)

\* The candidates a worker pulled and gave up: received from urlChan, held
\* by no worker, without a Result and without a panic.
Abandoned ==
    { c \in URLs : /\ pulls[c] > 0
                   /\ \A w \in Workers : wurl[w] # c
                   /\ emitted[c] = << >>
                   /\ c \notin crashedURLs }

\* limiter.Wait of worker w returns the error of ctx in this step, and
\* processURLs returns.
WaitReturnsCancelled(w) == w \in InLimiterWait /\ wpc'[w] = "exit"

Pending(before, P(_)) ==
    Cardinality({ w \in Workers : apc[w] \in before /\ P(ares[w]) })

\* C25: whatever the order in which the workers' atomic adds are executed,
\* no counter of Stats ever decreases and every add is counted: at any
\* moment a counter equals the number of produced Results of its kind minus
\* the adds still to come, and when all workers have returned checked,
\* alive, verified and errors equal the number of Results CheckURL
\* returned, those with Alive, those with Verified and those with an Error.
C25_StatsCountEveryResult ==
    /\ [][/\ stats'.checked >= stats.checked
          /\ stats'.alive >= stats.alive
          /\ stats'.verified >= stats.verified
          /\ stats'.errors >= stats.errors]_vars
    /\ [](/\ stats.checked + Pending({"checked"}, LAMBDA r : TRUE)
               = produced.checked
          /\ stats.alive + Pending({"checked", "alive"}, LAMBDA r : r.alive)
               = produced.alive
          /\ stats.verified + Pending({"checked", "alive", "verified"},
                                      LAMBDA r : r.verified)
               = produced.verified
          /\ stats.errors + Pending({"checked", "alive", "verified", "errors"},
                                    LAMBDA r : r.error # "")
               = produced.errors)
    /\ []((\A w \in Workers : apc[w] = "exit") =>
              /\ stats = produced
              /\ stats.checked = acount)

\* Workers have returned after adds that overlapped; the Results were one
\* verified live host and dead hosts.
C25_Witness ==
    /\ \A w \in Workers : apc[w] = "exit"
    /\ acount = NumURLs
    /\ stats.checked = NumURLs
    /\ stats.alive = 1
    /\ stats.verified = 1
    /\ stats.errors = NumURLs - 1

(* ------------------------------- C24 ---------------------------------- *)

\* Number of probes dispatched in the closed window [t, t + len].
Dispatched(t, len) ==
    Cardinality({ i \in 1..Len(dispatched) :
                      t <= dispatched[i] /\ dispatched[i] <= t + len })

\* The windows of the run so far.
Windows == { <<t, len>> \in (0..now) \X (0..now) : t + len <= now }

RedirectChain == GotResponse /\ pin.chain > 0

\* C26: with FollowRedirect up to 3 redirects of a chain are followed: a
\* chain of at most 3 ends with its final response and of a longer one the
\* 4th redirect is returned; without FollowRedirect none is followed and
\* the first redirect is returned.
C26_FollowsThreeRedirects ==
    RedirectChain =>
        IF pin.FollowRedirect
        THEN /\ pout.followed = Min(pin.chain, 3)
             /\ pin.chain <= 3 => pout.Status = pin.status
             /\ pin.chain > 3 => isRedirect(pout.Status)
        ELSE /\ pout.followed = 0
             /\ isRedirect(pout.Status)
             /\ pout.Redirect # << >>

\* What the client does: CheckRedirect sees the requests made so far, the
\* first one included, and stops at the third.
C26_FollowsTwoRedirects ==
    RedirectChain =>
        IF pin.FollowRedirect
        THEN /\ pout.followed = Min(pin.chain, MaxVia - 1)
             /\ pin.chain < MaxVia => pout.Status = pin.status
             /\ pin.chain >= MaxVia => isRedirect(pout.Status)
        ELSE /\ pout.followed = 0
             /\ isRedirect(pout.Status)
             /\ pout.Redirect # << >>

\* A chain of three redirects: the third is returned unfollowed.
C26_ThirdRedirectReturned ==
    /\ RedirectChain
    /\ pin.FollowRedirect
    /\ pin.chain = 3
    /\ pin.status = 200
    /\ pout.followed = 2
    /\ pout.Status = StatusFound
    /\ pout.Alive

(* ------------------------------- C27 ---------------------------------- *)

\* The worker pool has been launched.
PoolLaunched == mainPc \in { "run", "done" }

\* The system ceiling.
maxWorkers == numCPU * WorkersPerCPU

\* The effective worker count by the rule of the claim.
DerivedWorkers ==
    LET doubled == IF mainConfig.FastMode THEN 2 * requested ELSE requested
        halved == IF mainConfig.VerifyMode
                  THEN (IF Quo(doubled, 2) > 10 THEN Quo(doubled, 2) ELSE 10)
                  ELSE doubled
    IN IF halved > maxWorkers THEN maxWorkers ELSE halved

\* C27: config.Workers is derived once, before the pool is launched -- the
\* value of -t, doubled in fast mode, then replaced by max(count/2, 10) in
\* verify mode, then clamped to NumCPU * 50 -- and is not written again; the
\* pool has exactly that many workers (none when the count is not positive),
\* never more than the ceiling, and once the launch loop is over no worker
\* is started, whatever number of them has returned.
C27_FixedWorkerCount ==
    /\ [](mainPc \in { "launch", "run", "done" } =>
              /\ mainConfig.Workers = DerivedWorkers
              /\ mainConfig.Workers =
                     EffectiveWorkers(requested, mainConfig.FastMode,
                                      mainConfig.VerifyMode, numCPU)
              /\ mainConfig.Workers <= maxWorkers
              /\ launched <= max(mainConfig.Workers, 0)
              /\ returned <= launched)
    /\ [](PoolLaunched =>
              /\ mainConfig.Workers >= 0 => launched = mainConfig.Workers
              /\ mainConfig.Workers < 0 => launched = 0)
    /\ [][/\ mainPc \in { "launch", "run", "done" } =>
                 mainConfig' = mainConfig
          /\ PoolLaunched => launched' = launched
          /\ launched' >= launched]_vars

\* -t 100 with -fast and -verify on one processor: 200, then 100, then 50
\* workers, all launched, some of them already back.
C27_Witness ==
    /\ PoolLaunched
    /\ requested = DEFAULT_WORKERS
    /\ mainConfig.FastMode
    /\ mainConfig.VerifyMode
    /\ numCPU = 1
    /\ launched = 50
    /\ returned = 2

(* ------------------------------- C28 ---------------------------------- *)

\* Both strategies have returned.
TitlesExtracted == tpc = { "fast", "robust" }

\* The text cleaned as the claim says: trimmed, every run of white space
\* one space, cut after TitleMaxLen characters with "..." appended.
Expected(text) ==
    LET clean == TrimSpace(ReplaceWhitespace(text)) IN
    IF Len(clean) > TitleMaxLen
    THEN SubSeq(clean, 1, TitleMaxLen) \o <<".",".",".">>
    ELSE clean

\* The title element, from its open tag to its close tag, lies within the
\* bytes that are read.
WithinWindow(d) ==
    Len(d.prefix \o d.open \o d.text \o d.close) <= TitleBodySize

\* The body has a title element with an open and a close tag.
HasTitleElement(d) == d.open # << >> /\ d.close # << >> /\ WithinWindow(d)

\* The open tag is <title> or <title attributes>, the close tag </title>,
\* in any case.
PlainTags(d) ==
    /\ \/ ToLower(d.open) = TagTitle
       \/ HasPrefix(ToLower(d.open), TagTitleAttr)
    /\ ToLower(d.close) = TagTitleClose

HasReference(text) == UnescapeString(text) # text

WellFormedTitle(d) ==
    /\ HasTitleElement(d)
    /\ PlainTags(d)
    /\ ~HasReference(d.text)
    /\ ToLower(d.open) # TagTitle => d.suffix = << >>
    /\ d.text = << >> => d.suffix = << >>

C28_ReferenceDecoded ==
    /\ TitlesExtracted
    /\ tdoc.text = <<"a","&","a","m","p",";","b">>
    /\ tfast = <<"a","&","a","m",".",".",".">>
    /\ trobust = <<"a","&","b">>

(* ------------------------------- C29 ---------------------------------- *)

\* The blocks one after the other.
RECURSIVE Concat(_)
Concat(bs) == IF bs = << >> THEN << >> ELSE Head(bs) \o Concat(Tail(bs))

\* main called divideIntoBlocks for a -b of at least 1 and it returned.
Divided == bpc = "done" /\ maxBlocks >= 1

\* C29: for a non-empty list and -b >= 1 the blocks are non-empty, their
\* concatenation in order is the input list, and there are at most -b of
\* them.
C29_AtMostMaxBlocks ==
    /\ (bpc # "call" /\ maxBlocks >= 1) => bpc = "done"
    /\ Divided =>
        /\ \A k \in 1..Len(blocks) : blocks[k] # << >>
        /\ Concat(blocks) = burls
        /\ Len(blocks) <= maxBlocks

\* What holds: the call returns, the blocks are non-empty and cover the
\* list in order, all of them of len(urls) / numBlocks URLs but possibly
\* the last; there can be more than -b of them, fewer than twice as many.
C29_BlocksCoverInput ==
    /\ (bpc # "call" /\ maxBlocks >= 1) => bpc = "done"
    /\ Divided =>
        /\ \A k \in 1..Len(blocks) : blocks[k] # << >>
        /\ Concat(blocks) = burls
        /\ \A k \in 1..(Len(blocks) - 1) :
               Len(blocks[k]) = Len(burls) \div Min(maxBlocks, Len(burls))
        /\ Len(blocks) < 2 * maxBlocks

\* Five URLs and -b 3: five blocks of one URL.
C29_MoreBlocksThanMax ==
    /\ Divided
    /\ Len(burls) = 5
    /\ maxBlocks = 3
    /\ Len(blocks) = 5

(* ------------------------------- C30 ---------------------------------- *)

\* checkURL has returned.
Checked == chkPc = "done"

\* The request was answered with status 200.
Returned200(req) == ~req.resp.err /\ req.resp.StatusCode = 200

\* The requests are made round by round, http:// before https:// within a
\* round, each of them at most once.
InRoundOrder(reqs) ==
    \A j, k \in 1..Len(reqs) :
        j < k =>
            \/ reqs[j].round < reqs[k].round
            \/ /\ reqs[j].round = reqs[k].round
               /\ reqs[j].scheme = SchemeHTTP
               /\ reqs[k].scheme = SchemeHTTPS

\* C30: checkURL reports alive iff one of its requests returned status 200;
\* it makes at most retries+1 rounds, http:// then https:// in each; it
\* stops at the first 200 and returns the URL of the request that got it;
\* with httpsOnly no http:// request is made.
C30_AliveIffSome200 ==
    Checked =>
        /\ chkOut.alive <=>
               \E k \in 1..Len(chkOut.requests) : Returned200(chkOut.requests[k])
        /\ chkOut.rounds <= chkIn.retries + 1
        /\ \A k \in 1..Len(chkOut.requests) :
               /\ chkOut.requests[k].round < chkOut.rounds
               /\ chkOut.requests[k].url = chkOut.requests[k].scheme \o chkIn.url
        /\ InRoundOrder(chkOut.requests)
        /\ (~chkOut.alive /\ NewRequestOK(chkIn.url)) =>
               Len(chkOut.requests) =
                   chkOut.rounds * (IF chkIn.httpsOnly THEN 1 ELSE 2)
        /\ \A k \in 1..(Len(chkOut.requests) - 1) :
               ~Returned200(chkOut.requests[k])
        /\ chkOut.alive =>
               chkOut.fullURL = chkOut.requests[Len(chkOut.requests)].url
        /\ ~chkOut.alive => chkOut.fullURL = << >>
        /\ chkIn.httpsOnly =>
               \A k \in 1..Len(chkOut.requests) :
                   chkOut.requests[k].scheme = SchemeHTTPS

\* Both schemes fail in the first round, http:// fails again in the second
\* and https:// then answers 200.
C30_Witness ==
    /\ Checked
    /\ ~chkIn.httpsOnly
    /\ chkIn.retries = 1
    /\ chkOut.alive
    /\ chkOut.rounds = 2
    /\ Len(chkOut.requests) = 4
    /\ chkOut.fullURL = SchemeHTTPS \o chkIn.url

\* With httpsOnly a host that answers 200 only over http:// is not alive.
C30_HttpsOnlyWitness ==
    /\ Checked
    /\ chkIn.httpsOnly
    /\ chkIn.retries = 1
    /\ ~chkOut.alive
    /\ Len(chkOut.requests) = 2
    /\ \A i \in 0..1 : chkIn.answers[<< SchemeHTTP, i >>].StatusCode = 200

(* ------------------------------- C31 ---------------------------------- *)

\* The https attempt got a response: at once, or at its retry.
HTTPSAnswered ==
    pin.attempts[1] \/ (~pin.FastMode /\ pin.attempts[2])

\* C31: a liveness request goes to http:// only when the https attempt,
\* retry included, ended in a transport error; when the https attempt is
\* answered the Result is built from that response (its URL, its status; a
\* dead status gives alive=false with an empty error) and no request goes
\* to http://.
C31_HTTPOnlyAfterHTTPSError ==
    (Returned /\ isValidURL(pin.rawURL)) =>
        /\ ChecksTo(2) # {} => HTTPSFailed
        /\ HTTPSAnswered =>
            /\ ChecksTo(2) = {}
            /\ \A i \in 1..Len(pout.requests) :
                   HasPrefix(pout.requests[i].url, SchemeHTTPS)
            /\ pout.URL = FullURL(pin, 1)
            /\ pout.Status = RespStatus
            /\ ~isAliveStatus(RespStatus, pin.OnlyStatus) =>
                   /\ ~pout.Alive
                   /\ ~pout.Verified
                   /\ pout.Error = << >>

\* The https request fails, its retry is answered 404: a dead Result with
\* no error, after two requests to https:// and none to http://.
C31_Witness ==
    /\ Returned
    /\ isValidURL(pin.rawURL)
    /\ ~pin.FastMode
    /\ ~pin.attempts[1]
    /\ pin.attempts[2]
    /\ pout.Status = 404
    /\ ~pout.Alive
    /\ pout.Error = << >>
    /\ Len(pout.requests) = 2
    /\ ChecksTo(1) = {1, 2}

(* ------------------------------- C32 ---------------------------------- *)

\* The positions of the requests of a RequestType.
RequestsOfType(type) ==
    { i \in 1..Len(pout.requests) : pout.requests[i].type = type }

C32_GETWitness ==
    /\ Returned
    /\ pin.ExtractTitle
    /\ pout.verifRan
    /\ pout.Verified
    /\ Len(pout.requests) = 1
    /\ pout.requests[1].method = "GET"

(* ------------------------------- C33 ---------------------------------- *)

\* C33: the Result CheckURL returns, which processURLs sends unchanged:
\* verified implies alive; alive implies an empty error or one that starts
\* with "verification_failed"; the error "invalid_url" or one that starts
\* with "connection_failed" implies not alive and status 0; a title or a
\* redirect implies alive.
C33_ResultWellFormed ==
    Returned =>
        /\ pout.Verified => pout.Alive
        /\ pout.Alive =>
               \/ pout.Error = << >>
               \/ HasPrefix(pout.Error, <<"v","e","r","i","f","i","c","a","t","i","o","n","_","f","a","i","l","e","d">>)
        /\ (\/ pout.Error = <<"i","n","v","a","l","i","d","_","u","r","l">>
            \/ HasPrefix(pout.Error, <<"c","o","n","n","e","c","t","i","o","n","_","f","a","i","l","e","d">>))
               => (~pout.Alive /\ pout.Status = 0)
        /\ (pout.Title # << >> \/ pout.Redirect # << >>) => pout.Alive

\* A redirect that is alive although its verification request failed.
C33_Witness ==
    /\ Returned
    /\ pout.Alive
    /\ ~pout.Verified
    /\ HasPrefix(pout.Error, <<"v","e","r","i","f","i","c","a","t","i","o","n","_","f","a","i","l","e","d">>)
    /\ pout.Redirect # << >>

\* A dead Result with the error connection_failed and status 0.
C33_DeadWitness ==
    /\ Returned
    /\ ~pout.Alive
    /\ HasPrefix(pout.Error, <<"c","o","n","n","e","c","t","i","o","n","_","f","a","i","l","e","d">>)
    /\ pout.Status = 0
    /\ pout.Title = << >>

(* ------------------------------- C34 ---------------------------------- *)

\* The workers that hold a Result they have not sent yet.
HoldingResult ==
    { w \in Workers :
          apc[w] \in { "checked", "alive", "verified", "errors", "send" } }

\* Number of Results sent on the results channel: those CheckURL returned
\* less those still held by a worker.
Published == acount - Cardinality(HoldingResult)

\* C34: in every reachable state verified <= alive <= checked and
\* errors <= checked, the number of Results sent is at most checked, and
\* checked exceeds it by at most the number of workers.
C34_StatsOrdered ==
    /\ stats.verified <= stats.alive
    /\ stats.alive <= stats.checked
    /\ stats.errors <= stats.checked
    /\ Published <= stats.checked
    /\ stats.checked - Published <= NumWorkers

\* Every worker has counted its Result and none has sent it; one Result is
\* verified and its adds are done.
C34_Witness ==
    /\ Published = 0
    /\ stats.checked = NumWorkers
    /\ stats.verified = 1
    /\ stats.alive = 1
    /\ \E w \in Workers : apc[w] = "send" /\ ares[w].verified

(* ------------------------------- C35 ---------------------------------- *)

\* The protocol loop ended without a response.
LoopEndedWithoutResponse ==
    /\ Returned
    /\ isValidURL(pin.rawURL)
    /\ pout.Status = 0

\* C35: CheckURL never returns the error "no_response"; when the protocol
\* loop ends without a response the error starts with "connection_failed"
\* and gives the error of the last failed request.
C35_NeverNoResponse ==
    /\ Returned => pout.Error # ErrNoResponse
    /\ LoopEndedWithoutResponse =>
        /\ HasPrefix(pout.Error, <<"c","o","n","n","e","c","t","i","o","n","_","f","a","i","l","e","d">>)
        /\ Len(pout.Error) > Len(ErrConnectionFailed)
        /\ ~pout.Alive

\* Fast mode, both protocols fail at their only request.
C35_Witness ==
    /\ LoopEndedWithoutResponse
    /\ pin.FastMode
    /\ Len(pout.requests) = 2
    /\ ChecksTo(1) = {1}
    /\ ChecksTo(2) = {2}
    /\ HasPrefix(pout.Error, ErrConnectionFailed)

(* ------------------------------- C36 ---------------------------------- *)

\* Both -fast and -verify were given.
BothModes == mainConfig.FastMode /\ mainConfig.VerifyMode

\* C36: with both fast and verify set, the worker count before the clamp is
\* max(2w/2, 10) and the timeout is the 10 s of verify mode; a worker calls
\* CheckURL without limiter.Wait, and the probe verifies nothing, returns no
\* Result with verified=true and retries no request.
C36_FastWinsForProbing ==
    BothModes =>
        /\ mainPc = "clamp" =>
               mainConfig.Workers =
                   (IF Quo(2 * requested, 2) > 10 THEN Quo(2 * requested, 2)
                    ELSE 10)
        /\ mainPc \in { "clamp", "launch", "run", "done" } =>
               mainConfig.Timeout = 10
        /\ ppc = "done" =>
            /\ ~pout.verifRan
            /\ ~pout.Verified
            /\ RequestsOfType("verification") = {}
            /\ \A i \in 1..Len(pout.requests) : pout.requests[i].backoff = 0
            /\ \A p \in 1..2 : Cardinality(ChecksTo(p)) <= 1
            /\ \A c \in URLs : permits[c] = 0

\* -t 26 with -fast and -verify: 26 workers, timeout 10 s; a worker's probe
\* fails over https://, is not retried, and is answered over http://.
C36_Witness ==
    /\ BothModes
    /\ mainPc = "run"
    /\ requested = 26
    /\ mainConfig.Workers = 26
    /\ launched = 26
    /\ mainConfig.Timeout = VerifyTimeout
    /\ ppc = "done"
    /\ ~pin.attempts[1]
    /\ Len(pout.requests) = 2
    /\ pout.Alive
    /\ ~pout.Verified

\* With -verify alone the worker waits for the limiter, the request is
\* retried and the response is verified.
C36_VerifyAloneWitness ==
    /\ ~mainConfig.FastMode
    /\ mainConfig.VerifyMode
    /\ ppc = "done"
    /\ permits[1] = 1
    /\ ~pin.attempts[1]
    /\ Cardinality(ChecksTo(1)) = 2
    /\ pout.Verified

(* ------------------------------- C37 ---------------------------------- *)

\* The block goroutines that hold a token of sem.
HoldingToken == { g \in SemBlocks : semG[g] = "run" }

\* wg.Wait has returned.
WaitReturned == semPc \in {"closed", "done"}

\* C37: in the v1.0 variant with the semaphore every wg.Add(1) of main is
\* matched by exactly one Done: the WaitGroup counter never becomes negative
\* (no goroutine panics on it), wg.Wait returns only after every block
\* goroutine has finished, and at most -c block goroutines hold the
\* semaphore at any time.
C37_WaitGroupBalanced ==
    /\ semWg >= 0
    /\ semPc # "panic"
    /\ WaitReturned => \A g \in SemBlocks : semG[g] = "exit"
    /\ Cardinality(HoldingToken) <= semIn.c

\* What holds: the tokens of sem are those of the goroutines inside
\* processBlock's loop and the one main took for the goroutine it is about
\* to start, never more than -c; and the counter is the Adds less the Dones,
\* two for each goroutine that has left.
C37_SemaphoreBounds ==
    /\ semIn # << >> =>
        /\ semPc # "panic" =>
               Cardinality(HoldingToken) + (IF semPc = "go" THEN 1 ELSE 0) = semTokens
        /\ Cardinality(HoldingToken) <= semTokens
        /\ semTokens <= semIn.c
        /\ semWg = Cardinality({ g \in SemBlocks : semG[g] # "new" })
                   - Cardinality({ g \in SemBlocks : semG[g] = "inner" })
                   - 2 * Cardinality({ g \in SemBlocks : semG[g] = "exit" })

\* The second Done of a goroutine drove the counter below zero.
C37_NegativeCounter ==
    /\ semPc = "panic"
    /\ semWg = -1

\* wg.Wait returned and main finished while a block goroutine was still
\* checking its URLs.
C37_WaitReturnedEarly ==
    /\ semPc = "done"
    /\ \E g \in SemBlocks : semG[g] = "run"

(* ------------------------------- C38 ---------------------------------- *)

\* The block goroutines inside a call of the writer, WriteString or Flush.
InsideWriter == { g \in DOMAIN wrG : wrG[g].pc \in {"copy", "flush"} }

\* Number of times the line of block g is in the output file.
TimesWritten(g) == Cardinality({ i \in 1..Len(wrFile) : wrFile[i] = g })

\* C38: in the v1.0 block-based tool the write of an alive URL line to the
\* shared writer (WriteString followed by Flush) is mutually exclusive
\* between block goroutines: no two of them are inside the writer at the same
\* time, and no line is lost or written twice: when main has waited for the
\* goroutines the file holds the line of each alive URL exactly once.
C38_WriterMutualExclusion ==
    /\ Cardinality(InsideWriter) <= 1
    /\ wrMain = "done" =>
           \A g \in BlockGoroutines : TimesWritten(g) = (IF wrIn[g] THEN 1 ELSE 0)

\* What holds: only lines of alive URLs reach the file, and main returns
\* only after every block goroutine has ended.
C38_OnlyAliveLines ==
    /\ \A i \in 1..Len(wrFile) : wrFile[i] \in DOMAIN wrIn /\ wrIn[wrFile[i]]
    /\ wrMain = "done" => \A g \in BlockGoroutines : wrG[g].pc = "exit"

\* Two block goroutines are inside WriteString at once.
C38_TwoInsideWriter == Cardinality(InsideWriter) = 2

\* Both URLs were alive and the run is over, but a line is missing from the
\* file.
C38_LineLost ==
    /\ wrMain = "done"
    /\ \A g \in BlockGoroutines : wrIn[g]
    /\ \E g \in BlockGoroutines : TimesWritten(g) = 0

\* A line is in the file twice.
C38_LineTwice == \E g \in DOMAIN wrG : TimesWritten(g) = 2

(* ------------------------------- C39 ---------------------------------- *)

\* The alive URLs of the list.
V11Alive == { u \in V11URLs : v11In[u] }

\* The URLs whose lines are in the output file.
V11Written == { v11Out.file[i] : i \in 1..Len(v11Out.file) }

\* main has printed the summary and returned.
V11Returned == v11Main # << >> /\ v11Main.pc = "done"

\* C39: in the v1.1 tool every alive Result a worker sent on results has
\* been written to the output file and counted in liveCount by the writer
\* goroutine before main prints the summary and returns: main does not
\* finish while Results are still buffered in the channel or being written.
C39_WrittenBeforeSummary ==
    V11Returned =>
        /\ v11Chan = << >>
        /\ v11Out.pc \in {"recv", "exit"}
        /\ V11Written = V11Alive
        /\ v11Main.printed = Cardinality(V11Alive)

\* What holds: main closes results only after every worker has sent all its
\* Results, the file holds lines of alive URLs only, each at most once, and
\* liveCount is the number of lines written or one more.
C39_ClosedAfterSends ==
    v11Main # << >> =>
        /\ v11Main.pc # "wait" => \A w \in V11Workers : V11WorkerDone(w)
        /\ V11Written \subseteq V11Alive
        /\ Cardinality(V11Written) = Len(v11Out.file)
        /\ v11Out.liveCount \in { Len(v11Out.file), Len(v11Out.file) + 1 }
        /\ v11Main.printed <= Cardinality(V11Alive)

\* main returned while an alive Result was still buffered in the channel.
C39_ReturnedWithBuffered ==
    /\ V11Returned
    /\ \E i \in 1..Len(v11Chan) : v11In[v11Chan[i]]

\* main returned with every URL alive and nothing written: the summary says
\* that no live URL was found.
C39_SummaryMissesAlive ==
    /\ V11Returned
    /\ V11Alive = V11URLs
    /\ v11Main.printed = 0
    /\ v11Out.file = << >>

====
